---- MODULE Spec2Model ----
(***************************************************************************)
(* Model of the Azure Storage MCP server: the validators, the credential   *)
(* manager, the structured logger, the five domain tool operations and the *)
(* dispatcher handle_call_tool.                                            *)
(*                                                                         *)
(* Python strings whose characters matter (identifiers handed to the       *)
(* validators, argument keys handed to the log sanitizer) are sequences of *)
(* one-character strings.  Messages are sequences of text pieces.          *)
(***************************************************************************)
EXTENDS Integers, Sequences, FiniteSets, TLC

\* ------------------------------------------------------------------------
\* Characters and strings
\* ------------------------------------------------------------------------

LowerLetters ==
  {"a", "b", "c", "d", "e", "f", "g", "h", "i", "j", "k", "l", "m",
   "n", "o", "p", "q", "r", "s", "t", "u", "v", "w", "x", "y", "z"}

UpperLetters ==
  {"A", "B", "C", "D", "E", "F", "G", "H", "I", "J", "K", "L", "M",
   "N", "O", "P", "Q", "R", "S", "T", "U", "V", "W", "X", "Y", "Z"}

Digits == {"0","1","2","3","4","5","6","7","8","9"}

HexLower == Digits \cup {"a","b","c","d","e","f"}

\* the character class [a-zA-Z0-9._-]
ResourceGroupChars == LowerLetters \cup UpperLetters \cup Digits \cup {".","_","-"}

\* the character class [a-z0-9]
AccountNameChars == LowerLetters \cup Digits

\* the lower case letter of each upper case letter
LowerOf ==
  [A |-> "a", B |-> "b", C |-> "c", D |-> "d", E |-> "e", F |-> "f",
   G |-> "g", H |-> "h", I |-> "i", J |-> "j", K |-> "k", L |-> "l",
   M |-> "m", N |-> "n", O |-> "o", P |-> "p", Q |-> "q", R |-> "r",
   S |-> "s", T |-> "t", U |-> "u", V |-> "v", W |-> "w", X |-> "x",
   Y |-> "y", Z |-> "z"]

\* str.lower() on one character
LowerChar(c) == IF c \in UpperLetters THEN LowerOf[c] ELSE c

\* str.lower()
Lower(s) == [i \in 1..Len(s) |-> LowerChar(s[i])]

AllIn(s, class) == \A i \in 1..Len(s) : s[i] \in class

\* Python's "$" matches at the end of the string and also just before a
\* newline that is the last character: the part of s that "^...$" must cover.
DollarBodies(s) ==
  {s} \cup (IF Len(s) >= 1 /\ s[Len(s)] = "\n"
              THEN {SubSeq(s, 1, Len(s) - 1)}
              ELSE {})

\* re.match(r'^[class]+$', s)
MatchClassPlus(s, class) ==
  \E b \in DollarBodies(s) : Len(b) >= 1 /\ AllIn(b, class)

\* re.match(r'^[0-9a-f]{8}-[0-9a-f]{4}-[0-9a-f]{4}-[0-9a-f]{4}-[0-9a-f]{12}$', s)
UuidHyphens == {9, 14, 19, 24}

UuidLen == 36

MatchUuid(s) ==
  \E b \in DollarBodies(s) :
     /\ Len(b) = UuidLen
     /\ \A i \in 1..UuidLen :
          IF i \in UuidHyphens THEN b[i] = "-" ELSE b[i] \in HexLower

\* sub in s (Python substring test)
Contains(s, sub) ==
  \E i \in 0..(Len(s) - Len(sub)) : \A j \in 1..Len(sub) : s[i + j] = sub[j]

\* n copies of the character c
Rep(c, n) == [i \in 1..n |-> c]

\* Python None where a string is expected
None == <<"<None>">>

\* Python truthiness of an Optional[str]
Truthy(s) == s # None /\ s # <<>>

\* ------------------------------------------------------------------------
\* utils/exceptions.py
\* ------------------------------------------------------------------------

\* status_code None
NoStatus == 0

AzureStorageMCPError(message) ==
  [cls |-> "AzureStorageMCPError", error_code |-> "UNKNOWN_ERROR",
   message |-> message]

AuthenticationError(message, auth_method) ==
  [cls |-> "AuthenticationError", error_code |-> "AUTH_ERROR",
   message |-> message, auth_method |-> auth_method]

PermissionError(message, required_permission) ==
  [cls |-> "PermissionError", error_code |-> "PERMISSION_ERROR",
   message |-> message, required_permission |-> required_permission]

ValidationError(message, field_name) ==
  [cls |-> "ValidationError", error_code |-> "VALIDATION_ERROR",
   message |-> message, field_name |-> field_name]

\* a variant that drops the status code
AzureAPIErrorWithoutStatus(message, status_code) ==
  [cls |-> "AzureAPIError", error_code |-> "AZURE_API_ERROR",
   message |-> message, status_code |-> NoStatus]

AzureAPIError(message, status_code) ==
  [cls |-> "AzureAPIError", error_code |-> "AZURE_API_ERROR",
   message |-> message, status_code |-> status_code]

\* the subclasses of AzureStorageMCPError (isinstance test)
DomainErrorClasses ==
  {"AzureStorageMCPError", "AuthenticationError", "PermissionError",
   "ValidationError", "AzureAPIError"}

IsDomainError(e) == e.cls \in DomainErrorClasses

\* str(e): the message of the exception
Str(e) == e.message

\* ------------------------------------------------------------------------
\* Exceptions of the provider SDK and of the request models
\* ------------------------------------------------------------------------

\* azure.core.exceptions: ClientAuthenticationError derives from
\* HttpResponseError; anything else is a plain Exception.
ProviderError(cls, status_code, text) ==
  [cls |-> cls, status_code |-> status_code, message |-> <<text>>]

IsClientAuthenticationError(e) == e.cls = "ClientAuthenticationError"

IsHttpResponseError(e) ==
  e.cls \in {"HttpResponseError", "ClientAuthenticationError"}

\* pydantic.ValidationError raised by a request model constructor
PydanticValidationError(field) ==
  [cls |-> "pydantic.ValidationError",
   message |-> <<"1 validation error: ", field, " field required">>]

IsPydanticValidationError(e) == e.cls = "pydantic.ValidationError"

\* ------------------------------------------------------------------------
\* auth/azure_auth.py: SecurityValidator
\* ------------------------------------------------------------------------

Return(v) == [raised |-> FALSE, value |-> v]

Raise(e) == [raised |-> TRUE, exc |-> e]

MaxResourceGroupLen == 90

MinAccountNameLen == 3

MaxAccountNameLen == 24

validate_subscription_id(subscription_id) ==
  IF subscription_id = <<>> \/ subscription_id = None
    THEN Raise(ValidationError(<<"Subscription ID cannot be empty">>,
                               "subscription_id"))
  ELSE IF ~MatchUuid(Lower(subscription_id))
    THEN Raise(ValidationError(
                 <<"Invalid subscription ID format. Must be a valid UUID">>,
                 "subscription_id"))
  ELSE Return(subscription_id)

validate_resource_group(resource_group) ==
  IF resource_group = <<>> \/ resource_group = None
    THEN Raise(ValidationError(<<"Resource group name cannot be empty">>,
                               "resource_group"))
  ELSE IF ~MatchClassPlus(resource_group, ResourceGroupChars)
    THEN Raise(ValidationError(
                 <<"Invalid resource group name. Must contain only alphanumeric characters, periods, underscores, and hyphens">>,
                 "resource_group"))
  ELSE IF Len(resource_group) > MaxResourceGroupLen
    THEN Raise(ValidationError(
                 <<"Resource group name cannot exceed 90 characters">>,
                 "resource_group"))
  ELSE Return(resource_group)

validate_storage_account_name(account_name) ==
  IF account_name = <<>> \/ account_name = None
    THEN Raise(ValidationError(<<"Storage account name cannot be empty">>,
                               "account_name"))
  ELSE IF ~MatchClassPlus(account_name, AccountNameChars)
    THEN Raise(ValidationError(
                 <<"Invalid storage account name. Must contain only lowercase letters and numbers">>,
                 "account_name"))
  ELSE IF Len(account_name) < MinAccountNameLen
          \/ Len(account_name) > MaxAccountNameLen
    THEN Raise(ValidationError(
                 <<"Storage account name must be between 3 and 24 characters">>,
                 "account_name"))
  ELSE Return(account_name)

\* ------------------------------------------------------------------------
\* utils/logging.py: StructuredLogger
\* ------------------------------------------------------------------------

Chars_password == <<"p","a","s","s","w","o","r","d">>

Chars_secret == <<"s","e","c","r","e","t">>

Chars_key == <<"k","e","y">>

Chars_token == <<"t","o","k","e","n">>

Chars_credential == <<"c","r","e","d","e","n","t","i","a","l">>

sensitive_keys ==
  {Chars_password, Chars_secret, Chars_key, Chars_token, Chars_credential}

REDACTED == <<"***REDACTED***">>

\* parameters: a function from keys (character sequences) to values
IsSensitive(key) ==
  LET lowered == Lower(key)
  IN \E sensitive_key \in sensitive_keys : Contains(lowered, sensitive_key)

_sanitize_parameters(parameters) ==
  [key \in DOMAIN parameters |->
     IF IsSensitive(key) THEN REDACTED ELSE parameters[key]]

\* the record written by log_tool_execution
log_tool_execution(tool_name, parameters, result_type, success) ==
  [event_type |-> "tool_execution", tool_name |-> tool_name,
   parameters |-> _sanitize_parameters(parameters),
   result_type |-> result_type, success |-> success]

\* the record written by log_authentication
log_authentication(auth_method, success, error) ==
  [event_type |-> "authentication", auth_method |-> auth_method,
   success |-> success, error |-> error]

\* a variant that leaves the context out of the record
log_error_without_context(error, context) ==
  [event_type |-> "error", error_type |-> error.cls,
   error_message |-> Str(error), context |-> [context |-> "none"]]

\* the record written by log_error
log_error(error, context) ==
  [event_type |-> "error", error_type |-> error.cls,
   error_message |-> Str(error), context |-> context]

\* ------------------------------------------------------------------------
\* State
\* ------------------------------------------------------------------------

VARIABLES
  auth_method,      \* AzureAuthManager.auth_method (AZURE_AUTH_METHOD)
  environ,          \* os.environ: the three service principal variables
  _credential,      \* AzureAuthManager._credential
  handles,          \* number of credential handles constructed so far
  _storage_client,  \* StorageAccountsTools._storage_client
  _network_client,  \* NetworkRulesTools._storage_client
  _monitor_client,  \* MetricsTools._monitor_client
  last,             \* the most recent handler invocation and its outcome
  log,              \* the log records written by that invocation, in order
  provider_calls,   \* the provider calls issued by that invocation, in order
  process,          \* the server process: AzureStorageMCPServer.run
  event_loop        \* the asyncio event loop: its tasks and the one running

vars == <<auth_method, environ, _credential, handles, _storage_client,
          _network_client, _monitor_client, last, log, provider_calls,
          process, event_loop>>

\* Python None where an object is expected
NoneObject == [none |-> TRUE]

\* "is None" for the memoized credential and clients
NoCredential == NoneObject

NoClient == NoneObject

\* ------------------------------------------------------------------------
\* auth/azure_auth.py: AzureAuthManager
\* ------------------------------------------------------------------------

EnvVars == {"AZURE_TENANT_ID", "AZURE_CLIENT_ID", "AZURE_CLIENT_SECRET"}

\* a credential object of the identity SDK; id tells two constructions apart
Credential(kind, id) == [kind |-> kind, id |-> id]

\* what a constructor of the identity SDK raises when it rejects its input
SdkConstructorError == ProviderError("ValueError", NoStatus, "credential constructor failed")

\* os.environ.get(name): None when unset
EnvGet(env, name) == env[name]

\* a variant that tests the three variables for presence only, so that an
\* empty value passes
_create_service_principal_credential_presence_only(env, sdk_raises, id) ==
  IF \E v \in EnvVars : EnvGet(env, v) = None
    THEN Raise(AuthenticationError(
                 <<"Service principal authentication requires AZURE_TENANT_ID, AZURE_CLIENT_ID, and AZURE_CLIENT_SECRET environment variables">>,
                 "service_principal"))
  ELSE IF sdk_raises THEN Raise(SdkConstructorError)
  ELSE Return(Credential("ClientSecretCredential", id))

_create_service_principal_credential(env, sdk_raises, id) ==
  LET tenant_id == EnvGet(env, "AZURE_TENANT_ID")
      client_id == EnvGet(env, "AZURE_CLIENT_ID")
      client_secret == EnvGet(env, "AZURE_CLIENT_SECRET")
  IN IF ~(Truthy(tenant_id) /\ Truthy(client_id) /\ Truthy(client_secret))
       THEN Raise(AuthenticationError(
                    <<"Service principal authentication requires AZURE_TENANT_ID, AZURE_CLIENT_ID, and AZURE_CLIENT_SECRET environment variables">>,
                    "service_principal"))
     ELSE IF sdk_raises THEN Raise(SdkConstructorError)
     ELSE Return(Credential("ClientSecretCredential", id))

\* the try block of _create_credential, up to the construction
ConstructCredential(method, env, sdk_raises, id) ==
  IF method = "default"
    THEN IF sdk_raises THEN Raise(SdkConstructorError)
         ELSE Return(Credential("DefaultAzureCredential", id))
  ELSE IF method = "cli"
    THEN IF sdk_raises THEN Raise(SdkConstructorError)
         ELSE Return(Credential("AzureCliCredential", id))
  ELSE IF method = "managed_identity"
    THEN IF sdk_raises THEN Raise(SdkConstructorError)
         ELSE Return(Credential("ManagedIdentityCredential", id))
  ELSE IF method = "service_principal"
    THEN _create_service_principal_credential(env, sdk_raises, id)
  ELSE Raise(AuthenticationError(
               <<"Unknown authentication method: ", method>>, method))

\* an assignment statement: value is computed once and named in what follows
With(value, rest(_)) == rest(value)

\* _create_credential: the outcome and the log records it writes
_create_credential(method, env, sdk_raises, id) ==
  With(ConstructCredential(method, env, sdk_raises, id), LAMBDA c :
    IF c.raised
      THEN [raised |-> TRUE,
            exc |-> AuthenticationError(
                      <<"Failed to create credential for method ", method, ": ">>
                        \o Str(c.exc),
                      method),
            log |-> <<log_authentication(method, FALSE, Str(c.exc))>>]
      ELSE [raised |-> FALSE, value |-> c.value,
            log |-> <<log_authentication(method, TRUE, <<>>)>>])

\* The effects of one handler invocation are threaded through a context:
\* the auth manager's fields, the records logged, the provider calls issued,
\* and what each get_credential call returned or raised.
Context(cred, made) ==
  [credential |-> cred, handles |-> made, log |-> <<>>, calls |-> <<>>,
   cred_returns |-> <<>>, cred_raises |-> <<>>, create_attempts |-> 0,
   clients_created |-> 0]

\* a variant without the "is None" test: every call constructs
get_credential_uncached(ctx, sdk_raises) ==
  With(_create_credential(auth_method, environ, sdk_raises, ctx.handles + 1),
    LAMBDA c :
      IF c.raised
        THEN [raised |-> TRUE, exc |-> c.exc,
              ctx |-> [ctx EXCEPT !.log = @ \o c.log,
                                  !.create_attempts = @ + 1,
                                  !.cred_raises = Append(@, c.exc)]]
        ELSE [raised |-> FALSE, value |-> c.value,
              ctx |-> [ctx EXCEPT !.credential = c.value,
                                  !.handles = @ + 1,
                                  !.log = @ \o c.log,
                                  !.create_attempts = @ + 1,
                                  !.cred_returns = Append(@, c.value)]])

\* get_credential
get_credential(ctx, sdk_raises) ==
  IF ctx.credential = NoCredential
    THEN With(_create_credential(auth_method, environ, sdk_raises,
                                 ctx.handles + 1), LAMBDA c :
           IF c.raised
             THEN [raised |-> TRUE, exc |-> c.exc,
                   ctx |-> [ctx EXCEPT !.log = @ \o c.log,
                                       !.create_attempts = @ + 1,
                                       !.cred_raises = Append(@, c.exc)]]
             ELSE [raised |-> FALSE, value |-> c.value,
                   ctx |-> [ctx EXCEPT !.credential = c.value,
                                       !.handles = @ + 1,
                                       !.log = @ \o c.log,
                                       !.create_attempts = @ + 1,
                                       !.cred_returns = Append(@, c.value)]])
    ELSE [raised |-> FALSE, value |-> ctx.credential,
          ctx |-> [ctx EXCEPT !.cred_returns = Append(@, ctx.credential)]]

\* credential.get_token(scope): the token request of the identity provider
ManagementScope == "https://management.azure.com/.default"

GetTokenCall(credential, token) ==
  [op |-> "get_token", client |-> credential, args |-> <<ManagementScope>>,
   result |-> token]

\* a variant that returns False on a failure without writing a record
test_authentication_silent(ctx, sdk_raises, token) ==
  With(get_credential(ctx, sdk_raises), LAMBDA g :
    IF g.raised
      THEN [value |-> FALSE, ctx |-> g.ctx]
    ELSE IF ~token.raised
      THEN [value |-> token.value # NoneObject,
            ctx |-> [g.ctx EXCEPT !.calls = Append(@, GetTokenCall(g.value, token))]]
    ELSE [value |-> FALSE,
          ctx |-> [g.ctx EXCEPT
                     !.calls = Append(@, GetTokenCall(g.value, token))]])

\* test_authentication: token is Return(token) or Raise(provider exception)
test_authentication(ctx, sdk_raises, token) ==
  With(get_credential(ctx, sdk_raises), LAMBDA g :
    IF g.raised
      \* AuthenticationError is not a ClientAuthenticationError
      THEN [value |-> FALSE,
            ctx |-> [g.ctx EXCEPT !.log =
                       Append(@, log_error(g.exc, [context |-> "test_authentication"]))]]
    ELSE IF ~token.raised
      THEN [value |-> token.value # NoneObject,
            ctx |-> [g.ctx EXCEPT !.calls = Append(@, GetTokenCall(g.value, token))]]
    ELSE IF IsClientAuthenticationError(token.exc)
      THEN [value |-> FALSE,
            ctx |-> [g.ctx EXCEPT
                       !.calls = Append(@, GetTokenCall(g.value, token)),
                       !.log = Append(@, log_authentication(auth_method, FALSE,
                                                            Str(token.exc)))]]
    ELSE [value |-> FALSE,
          ctx |-> [g.ctx EXCEPT
                     !.calls = Append(@, GetTokenCall(g.value, token)),
                     !.log = Append(@, log_error(token.exc,
                                                 [context |-> "test_authentication"]))]])

\* ------------------------------------------------------------------------
\* models: request objects
\* ------------------------------------------------------------------------

\* Argument and field names, as character sequences (the log sanitizer
\* inspects their characters).
K_subscription_id == <<"s","u","b","s","c","r","i","p","t","i","o","n","_","i","d">>

K_resource_group == <<"r","e","s","o","u","r","c","e","_","g","r","o","u","p">>

K_account_name == <<"a","c","c","o","u","n","t","_","n","a","m","e">>

K_include_deleted == <<"i","n","c","l","u","d","e","_","d","e","l","e","t","e","d">>

K_include_keys == <<"i","n","c","l","u","d","e","_","k","e","y","s">>

K_time_range == <<"t","i","m","e","_","r","a","n","g","e">>

K_metrics == <<"m","e","t","r","i","c","s">>

K_aggregation_type == <<"a","g","g","r","e","g","a","t","i","o","n","_","t","y","p","e">>

K_interval == <<"i","n","t","e","r","v","a","l">>

K_api_key == <<"a","p","i","_","k","e","y">>

\* bool and list values as they appear in a parameter dictionary
PyFalse == <<"False">>

PyTrue == <<"True">>

\* arguments.get(key): None when the key is absent
ArgGet(arguments, key) ==
  IF key \in DOMAIN arguments THEN arguments[key] ELSE None

\* arguments.get(key, default)
ArgGetDefault(arguments, key, default) ==
  IF key \in DOMAIN arguments THEN arguments[key] ELSE default

\* The constructor of a request model: a required field that is absent
\* raises pydantic.ValidationError; unknown keys are ignored.
ParseRequest(arguments, required, build) ==
  IF \E k \in required : k \notin DOMAIN arguments
    THEN Raise(PydanticValidationError(
                 CHOOSE k \in required : k \notin DOMAIN arguments))
    ELSE Return(build)

ListStorageAccountsRequest(arguments) ==
  ParseRequest(arguments, {K_subscription_id},
    [subscription_id |-> ArgGet(arguments, K_subscription_id),
     resource_group |-> ArgGet(arguments, K_resource_group),
     include_deleted |-> ArgGetDefault(arguments, K_include_deleted, PyFalse)])

GetStorageAccountDetailsRequest(arguments) ==
  ParseRequest(arguments, {K_subscription_id, K_resource_group, K_account_name},
    [subscription_id |-> ArgGet(arguments, K_subscription_id),
     resource_group |-> ArgGet(arguments, K_resource_group),
     account_name |-> ArgGet(arguments, K_account_name),
     include_keys |-> ArgGetDefault(arguments, K_include_keys, PyFalse)])

GetNetworkRulesRequest(arguments) ==
  ParseRequest(arguments, {K_subscription_id, K_resource_group, K_account_name},
    [subscription_id |-> ArgGet(arguments, K_subscription_id),
     resource_group |-> ArgGet(arguments, K_resource_group),
     account_name |-> ArgGet(arguments, K_account_name)])

GetPrivateEndpointsRequest(arguments) ==
  ParseRequest(arguments, {K_subscription_id, K_resource_group, K_account_name},
    [subscription_id |-> ArgGet(arguments, K_subscription_id),
     resource_group |-> ArgGet(arguments, K_resource_group),
     account_name |-> ArgGet(arguments, K_account_name)])

DefaultMetrics == <<"UsedCapacity", "Transactions">>

GetStorageMetricsRequest(arguments) ==
  ParseRequest(arguments, {K_subscription_id, K_resource_group, K_account_name},
    [subscription_id |-> ArgGet(arguments, K_subscription_id),
     resource_group |-> ArgGet(arguments, K_resource_group),
     account_name |-> ArgGet(arguments, K_account_name),
     time_range |-> ArgGetDefault(arguments, K_time_range, <<"1h">>),
     metrics |-> ArgGetDefault(arguments, K_metrics, DefaultMetrics),
     aggregation_type |-> ArgGetDefault(arguments, K_aggregation_type, <<"Average">>),
     interval |-> ArgGetDefault(arguments, K_interval, <<"PT1H">>)])

\* request.dict(): the fields of the request, keyed by field name
RequestDict(request) ==
  LET fields == DOMAIN request
      key(f) == CASE f = "subscription_id" -> K_subscription_id
                  [] f = "resource_group" -> K_resource_group
                  [] f = "account_name" -> K_account_name
                  [] f = "include_deleted" -> K_include_deleted
                  [] f = "include_keys" -> K_include_keys
                  [] f = "time_range" -> K_time_range
                  [] f = "metrics" -> K_metrics
                  [] f = "aggregation_type" -> K_aggregation_type
                  [] f = "interval" -> K_interval
  IN [k \in {key(f) : f \in fields} |->
        request[CHOOSE f \in fields : key(f) = k]]

\* ------------------------------------------------------------------------
\* Python built-ins used by the summaries: str(int), str comparison,
\* sorted(dict.items()), ", ".join
\* ------------------------------------------------------------------------

\* the characters of names in code point order
CodePointOrder ==
  <<"-", ".", "0", "1", "2", "3", "4", "5", "6", "7", "8", "9",
    "A", "B", "C", "D", "E", "F", "G", "H", "I", "J", "K", "L", "M",
    "N", "O", "P", "Q", "R", "S", "T", "U", "V", "W", "X", "Y", "Z", "_",
    "a", "b", "c", "d", "e", "f", "g", "h", "i", "j", "k", "l", "m",
    "n", "o", "p", "q", "r", "s", "t", "u", "v", "w", "x", "y", "z">>

\* the decimal digits, by value
DecimalDigits == <<"0", "1", "2", "3", "4", "5", "6", "7", "8", "9">>

Ord(c) == CHOOSE i \in DOMAIN CodePointOrder : CodePointOrder[i] = c

\* s < t for two str values
RECURSIVE StrLess(_, _)
StrLess(s, t) ==
  IF t = <<>> THEN FALSE
  ELSE IF s = <<>> THEN TRUE
  ELSE IF Head(s) = Head(t) THEN StrLess(Tail(s), Tail(t))
  ELSE Ord(Head(s)) < Ord(Head(t))

\* f"{n}" for an int n >= 0
RECURSIVE FormatInt(_)
FormatInt(n) ==
  IF n < 10 THEN <<DecimalDigits[n + 1]>>
  ELSE FormatInt(n \div 10) \o <<DecimalDigits[(n % 10) + 1]>>

\* a variant that orders the keys from the greatest to the least
RECURSIVE SortedKeysDescending(_)
SortedKeysDescending(keys) ==
  IF keys = {} THEN <<>>
  ELSE LET first == CHOOSE k \in keys : \A other \in keys \ {k} : StrLess(other, k)
       IN <<first>> \o SortedKeysDescending(keys \ {first})

\* the keys of a dict of counts, as sorted(d.items()) orders them
RECURSIVE SortedKeys(_)
SortedKeys(keys) ==
  IF keys = {} THEN <<>>
  ELSE LET first == CHOOSE k \in keys : \A other \in keys \ {k} : StrLess(k, other)
       IN <<first>> \o SortedKeys(keys \ {first})

\* d[k] after "d[k] = d.get(k, 0) + 1" for every item of values
CountOf(values, k) == Cardinality({i \in DOMAIN values : values[i] = k})

\* ", ".join(f"{k}: {n}" for k, n in sorted(d.items())), d the counts of
\* values
RECURSIVE JoinCounts(_, _)
JoinCounts(keys, values) ==
  IF keys = <<>> THEN <<>>
  ELSE Head(keys) \o <<": ">> \o FormatInt(CountOf(values, Head(keys)))
         \o (IF Tail(keys) = <<>> THEN <<>> ELSE <<", ">>)
         \o JoinCounts(Tail(keys), values)

\* the summary of the distribution of values
Distribution(values) ==
  JoinCounts(SortedKeys({values[i] : i \in DOMAIN values}), values)

\* "s" unless count is 1
Plural(count) == IF count # 1 THEN <<"s">> ELSE <<>>

\* ------------------------------------------------------------------------
\* tools: provider clients and provider calls
\* ------------------------------------------------------------------------

StorageManagementClient(credential, subscription_id) ==
  [cls |-> "StorageManagementClient", credential |-> credential,
   subscription_id |-> subscription_id]

MonitorManagementClient(credential, subscription_id) ==
  [cls |-> "MonitorManagementClient", credential |-> credential,
   subscription_id |-> subscription_id]

\* a variant whose account lookup is an update of the account
ProviderCallUpdating(client, op, args, result) ==
  [op |-> IF op = "storage_accounts.get_properties"
            THEN "storage_accounts.update" ELSE op,
   client |-> client, args |-> args, result |-> result]

\* one call on a provider client, with what the provider answered
ProviderCall(client, op, args, result) ==
  [op |-> op, client |-> client, args |-> args, result |-> result]

Issue(ctx, call) == [ctx EXCEPT !.calls = Append(@, call)]

Logged(ctx, record) == [ctx EXCEPT !.log = Append(@, record)]

\* _get_storage_client / _get_monitor_client: the memoized client of a tool
GetClient(client, ctx, subscription_id, sdk_raises, make(_, _)) ==
  IF client = NoClient
    THEN With(get_credential(ctx, sdk_raises), LAMBDA g :
           IF g.raised
             THEN [raised |-> TRUE, exc |-> g.exc, ctx |-> g.ctx,
                   client |-> NoClient]
             ELSE [raised |-> FALSE, value |-> make(g.value, subscription_id),
                   client |-> make(g.value, subscription_id),
                   ctx |-> [g.ctx EXCEPT !.clients_created = @ + 1]])
    ELSE [raised |-> FALSE, value |-> client, client |-> client, ctx |-> ctx]

_get_storage_client(client, ctx, subscription_id, sdk_raises) ==
  GetClient(client, ctx, subscription_id, sdk_raises, StorageManagementClient)

_get_monitor_client(client, ctx, subscription_id, sdk_raises) ==
  GetClient(client, ctx, subscription_id, sdk_raises, MonitorManagementClient)

\* ------------------------------------------------------------------------
\* tools: the except clauses that end every operation
\* ------------------------------------------------------------------------

ForbiddenStatus == 403

NotFoundStatus == 404

\* a variant of the except clauses without the 403 branch
TranslateExceptionWithoutForbidden(e, forbidden_text, required_permission, not_found, account_name) ==
  IF e.cls = "ValidationError" THEN e
  ELSE IF IsClientAuthenticationError(e)
    THEN AuthenticationError(<<"Authentication failed: ">> \o Str(e), "azure_auth")
  ELSE IF IsHttpResponseError(e)
    THEN IF not_found /\ e.status_code = NotFoundStatus
           THEN AzureAPIError(<<"Storage account not found: ">> \o account_name,
                              NotFoundStatus)
         ELSE AzureAPIError(<<"Azure API error: ">> \o Str(e), e.status_code)
  ELSE AzureStorageMCPError(<<"Unexpected error: ">> \o Str(e))

\* a variant of the except clauses without the 404 branch
TranslateExceptionWithoutNotFound(e, forbidden_text, required_permission, not_found, account_name) ==
  IF e.cls = "ValidationError" THEN e
  ELSE IF IsClientAuthenticationError(e)
    THEN AuthenticationError(<<"Authentication failed: ">> \o Str(e), "azure_auth")
  ELSE IF IsHttpResponseError(e)
    THEN IF e.status_code = ForbiddenStatus
           THEN PermissionError(<<forbidden_text>> \o Str(e), required_permission)
         ELSE AzureAPIError(<<"Azure API error: ">> \o Str(e), e.status_code)
  ELSE AzureStorageMCPError(<<"Unexpected error: ">> \o Str(e))

\* a variant with a clause that re-raises an AuthenticationError as it is
TranslateExceptionKeepingAuth(e, forbidden_text, required_permission, not_found, account_name) ==
  IF e.cls \in {"ValidationError", "AuthenticationError"} THEN e
  ELSE IF IsClientAuthenticationError(e)
    THEN AuthenticationError(<<"Authentication failed: ">> \o Str(e), "azure_auth")
  ELSE IF IsHttpResponseError(e)
    THEN IF e.status_code = ForbiddenStatus
           THEN PermissionError(<<forbidden_text>> \o Str(e), required_permission)
         ELSE IF not_found /\ e.status_code = NotFoundStatus
           THEN AzureAPIError(<<"Storage account not found: ">> \o account_name,
                              NotFoundStatus)
         ELSE AzureAPIError(<<"Azure API error: ">> \o Str(e), e.status_code)
  ELSE AzureStorageMCPError(<<"Unexpected error: ">> \o Str(e))

\* a variant without the last clause, "except Exception"
TranslateExceptionWithoutCatchAll(e, forbidden_text, required_permission, not_found, account_name) ==
  IF e.cls = "ValidationError" THEN e
  ELSE IF IsClientAuthenticationError(e)
    THEN AuthenticationError(<<"Authentication failed: ">> \o Str(e), "azure_auth")
  ELSE IF IsHttpResponseError(e)
    THEN IF e.status_code = ForbiddenStatus
           THEN PermissionError(<<forbidden_text>> \o Str(e), required_permission)
         ELSE IF not_found /\ e.status_code = NotFoundStatus
           THEN AzureAPIError(<<"Storage account not found: ">> \o account_name,
                              NotFoundStatus)
         ELSE AzureAPIError(<<"Azure API error: ">> \o Str(e), e.status_code)
  ELSE e

\* The error an operation raises for the exception e that left its try
\* block.  forbidden_text and required_permission are the operation's own;
\* not_found is TRUE for the operations that have a 404 clause.
TranslateException(e, forbidden_text, required_permission, not_found, account_name) ==
  IF e.cls = "ValidationError" THEN e
  ELSE IF IsClientAuthenticationError(e)
    THEN AuthenticationError(<<"Authentication failed: ">> \o Str(e), "azure_auth")
  ELSE IF IsHttpResponseError(e)
    THEN IF e.status_code = ForbiddenStatus
           THEN PermissionError(<<forbidden_text>> \o Str(e), required_permission)
         ELSE IF not_found /\ e.status_code = NotFoundStatus
           THEN AzureAPIError(<<"Storage account not found: ">> \o account_name,
                              NotFoundStatus)
         ELSE AzureAPIError(<<"Azure API error: ">> \o Str(e), e.status_code)
  ELSE AzureStorageMCPError(<<"Unexpected error: ">> \o Str(e))

\* The end of an operation: body is what its try block produced.  A
\* success is logged by log_tool_execution and returned; a failure is
\* translated by the operation's except clauses, logged by log_error with
\* the correlation id, and raised.
EndOperation(body, tool_name, request, correlation_id, forbidden_text,
             required_permission, not_found) ==
  IF body.raised
    THEN With(TranslateException(body.exc, forbidden_text, required_permission,
                                 not_found,
                                 IF not_found THEN request.account_name ELSE None),
           LAMBDA error :
             [outcome |-> Raise(error),
              ctx |-> Logged(body.ctx,
                             log_error(error, [correlation_id |-> correlation_id])),
              client |-> body.client])
    ELSE [outcome |-> Return(body.value),
          ctx |-> Logged(body.ctx,
                         log_tool_execution(tool_name, RequestDict(request),
                                            body.value.type, TRUE)),
          client |-> body.client]

\* a try block left by the exception e
Abort(e, ctx, client) == [raised |-> TRUE, exc |-> e, ctx |-> ctx, client |-> client]

\* a try block that reached its return statement
Done(v, ctx, client) == [raised |-> FALSE, value |-> v, ctx |-> ctx, client |-> client]

ResponseMetadata(correlation_id) == [correlation_id |-> correlation_id]

\* "x or []"
OrEmpty(x) == IF x = None THEN <<>> ELSE x

\* ------------------------------------------------------------------------
\* tools/storage_accounts.py
\* ------------------------------------------------------------------------

StorageAccountSummary(account) ==
  [name |-> account.name, location |-> account.location]

\* a variant that takes every resource group other than None as given
ScopeOfGiven(request) ==
  IF request.resource_group # None
    THEN <<"resource group '">> \o request.resource_group \o <<"'">>
    ELSE <<"subscription">>

\* "resource group '<rg>'" if request.resource_group else "subscription"
Scope(request) ==
  IF Truthy(request.resource_group)
    THEN <<"resource group '">> \o request.resource_group \o <<"'">>
    ELSE <<"subscription">>

\* a variant of the summary that reports the include_deleted flag
_create_list_summary_noting_deleted(accounts, request) ==
  (IF accounts = <<>>
     THEN <<"No storage accounts found in ">> \o Scope(request)
     ELSE <<"Found ">> \o FormatInt(Len(accounts)) \o <<" storage account">>
            \o Plural(Len(accounts)) \o <<" in ">> \o Scope(request)
            \o <<". Distribution by region: ">>
            \o Distribution([i \in DOMAIN accounts |-> accounts[i].location]))
    \o (IF request.include_deleted = PyTrue
          THEN <<" (deleted accounts included)">> ELSE <<>>)

_create_list_summary(accounts, request) ==
  IF accounts = <<>>
    THEN <<"No storage accounts found in ">> \o Scope(request)
    ELSE <<"Found ">> \o FormatInt(Len(accounts)) \o <<" storage account">>
           \o Plural(Len(accounts)) \o <<" in ">> \o Scope(request)
           \o <<". Distribution by region: ">>
           \o Distribution([i \in DOMAIN accounts |-> accounts[i].location])

\* ListStorageAccountsResponse(...) as list_storage_accounts builds it
ListStorageAccountsResponse(storage_accounts, request, correlation_id) ==
  [type |-> "ListStorageAccountsResponse",
   storage_accounts |-> storage_accounts,
   total_count |-> Len(storage_accounts),
   metadata |-> ResponseMetadata(correlation_id),
   summary |-> _create_list_summary(storage_accounts, request)]

\* the try block of list_storage_accounts
list_storage_accounts_body(client, ctx, request, prov, sdk_raises, correlation_id) ==
  LET v1 == validate_subscription_id(request.subscription_id)
      v2 == IF Truthy(request.resource_group)
              THEN validate_resource_group(request.resource_group)
              ELSE Return(None)
  IN IF v1.raised THEN Abort(v1.exc, ctx, client)
     ELSE IF v2.raised THEN Abort(v2.exc, ctx, client)
     ELSE
       With(_get_storage_client(client, ctx, request.subscription_id, sdk_raises),
         LAMBDA g :
           IF g.raised THEN Abort(g.exc, g.ctx, g.client)
           ELSE
             LET c == Issue(g.ctx,
                        IF Truthy(request.resource_group)
                          THEN ProviderCall(g.value,
                                 "storage_accounts.list_by_resource_group",
                                 <<request.resource_group>>, prov.main)
                          ELSE ProviderCall(g.value, "storage_accounts.list",
                                            <<>>, prov.main))
             IN IF prov.main.raised THEN Abort(prov.main.exc, c, g.client)
                ELSE Done(ListStorageAccountsResponse(
                            [i \in 1..Len(prov.main.value) |->
                               StorageAccountSummary(prov.main.value[i])],
                            request, correlation_id),
                          c, g.client))

list_storage_accounts(client, ctx, request, prov, sdk_raises, correlation_id) ==
  EndOperation(list_storage_accounts_body(client, ctx, request, prov,
                                          sdk_raises, correlation_id),
               "list_storage_accounts", request, correlation_id,
               "Insufficient permissions to list storage accounts: ",
               "Microsoft.Storage/storageAccounts/read", FALSE)

\* bypass None
NoBypass == ""

_build_network_configuration(network_rules) ==
  IF network_rules = NoneObject
    THEN [default_action |-> "Allow", ip_rules |-> <<>>,
          virtual_network_rules |-> <<>>, resource_access_rules |-> <<>>,
          bypass |-> "AzureServices"]
    ELSE [default_action |-> network_rules.default_action,
          ip_rules |-> OrEmpty(network_rules.ip_rules),
          virtual_network_rules |-> OrEmpty(network_rules.virtual_network_rules),
          resource_access_rules |-> OrEmpty(network_rules.resource_access_rules),
          bypass |-> IF network_rules.bypass = NoBypass THEN "None"
                     ELSE network_rules.bypass]

\* retention days None
NullDays == -1

_build_blob_service_properties(blob_props) ==
  IF blob_props = NoneObject
    THEN [versioning_enabled |-> FALSE, change_feed_enabled |-> FALSE,
          soft_delete_enabled |-> FALSE, soft_delete_retention_days |-> NullDays,
          container_soft_delete_enabled |-> FALSE,
          container_soft_delete_retention_days |-> NullDays,
          restore_policy_enabled |-> FALSE, restore_policy_days |-> NullDays,
          last_access_time_tracking_enabled |-> FALSE]
    ELSE [versioning_enabled |-> blob_props.is_versioning_enabled,
          change_feed_enabled |-> blob_props.change_feed_enabled,
          soft_delete_enabled |-> blob_props.delete_retention_enabled,
          soft_delete_retention_days |->
            IF blob_props.delete_retention_enabled
              THEN blob_props.delete_retention_days ELSE NullDays,
          container_soft_delete_enabled |-> blob_props.container_delete_retention_enabled,
          container_soft_delete_retention_days |->
            IF blob_props.container_delete_retention_enabled
              THEN blob_props.container_delete_retention_days ELSE NullDays,
          restore_policy_enabled |-> blob_props.restore_policy_enabled,
          restore_policy_days |->
            IF blob_props.restore_policy_enabled
              THEN blob_props.restore_policy_days ELSE NullDays,
          last_access_time_tracking_enabled |-> blob_props.last_access_time_tracking_enabled]

\* a variant in which a failure of the blob service call leaves the try
\* block like a failure of the account properties call
get_storage_account_details_body_blob_mandatory(client, ctx, request, prov, sdk_raises, correlation_id) ==
  LET v1 == validate_subscription_id(request.subscription_id)
      v2 == validate_resource_group(request.resource_group)
      v3 == validate_storage_account_name(request.account_name)
  IN IF v1.raised THEN Abort(v1.exc, ctx, client)
     ELSE IF v2.raised THEN Abort(v2.exc, ctx, client)
     ELSE IF v3.raised THEN Abort(v3.exc, ctx, client)
     ELSE
       With(_get_storage_client(client, ctx, request.subscription_id, sdk_raises),
         LAMBDA g :
           IF g.raised THEN Abort(g.exc, g.ctx, g.client)
           ELSE
             LET c1 == Issue(g.ctx, ProviderCall(g.value,
                               "storage_accounts.get_properties",
                               <<request.resource_group, request.account_name>>,
                               prov.main))
                 c2 == Issue(c1, ProviderCall(g.value,
                               "blob_services.get_service_properties",
                               <<request.resource_group, request.account_name>>,
                               prov.blob))
             IN IF prov.main.raised THEN Abort(prov.main.exc, c1, g.client)
                ELSE IF prov.blob.raised THEN Abort(prov.blob.exc, c2, g.client)
                ELSE
                  Done([type |-> "StorageAccountDetails",
                        basic_properties |->
                          [name |-> prov.main.value.name,
                           resource_group |-> request.resource_group,
                           subscription_id |-> request.subscription_id,
                           location |-> prov.main.value.location],
                        network_configuration |->
                          _build_network_configuration(
                            prov.main.value.network_rule_set),
                        blob_service_properties |->
                          _build_blob_service_properties(prov.blob.value),
                        access_policies |-> <<>>,
                        metadata |-> ResponseMetadata(correlation_id)],
                       c2, g.client))

\* the try block of get_storage_account_details
get_storage_account_details_body(client, ctx, request, prov, sdk_raises, correlation_id) ==
  LET v1 == validate_subscription_id(request.subscription_id)
      v2 == validate_resource_group(request.resource_group)
      v3 == validate_storage_account_name(request.account_name)
  IN IF v1.raised THEN Abort(v1.exc, ctx, client)
     ELSE IF v2.raised THEN Abort(v2.exc, ctx, client)
     ELSE IF v3.raised THEN Abort(v3.exc, ctx, client)
     ELSE
       With(_get_storage_client(client, ctx, request.subscription_id, sdk_raises),
         LAMBDA g :
           IF g.raised THEN Abort(g.exc, g.ctx, g.client)
           ELSE
             LET c1 == Issue(g.ctx, ProviderCall(g.value,
                               "storage_accounts.get_properties",
                               <<request.resource_group, request.account_name>>,
                               prov.main))
                 \* the blob service call; its failure is logged and absorbed
                 c2 == Issue(c1, ProviderCall(g.value,
                               "blob_services.get_service_properties",
                               <<request.resource_group, request.account_name>>,
                               prov.blob))
             IN IF prov.main.raised THEN Abort(prov.main.exc, c1, g.client)
                ELSE
                  Done([type |-> "StorageAccountDetails",
                        basic_properties |->
                          [name |-> prov.main.value.name,
                           resource_group |-> request.resource_group,
                           subscription_id |-> request.subscription_id,
                           location |-> prov.main.value.location],
                        network_configuration |->
                          _build_network_configuration(
                            prov.main.value.network_rule_set),
                        blob_service_properties |->
                          _build_blob_service_properties(
                            IF prov.blob.raised THEN NoneObject
                            ELSE prov.blob.value),
                        access_policies |-> <<>>,
                        metadata |-> ResponseMetadata(correlation_id)],
                       IF prov.blob.raised
                         THEN Logged(c2, log_error(prov.blob.exc,
                                          [context |-> "get_blob_properties"]))
                         ELSE c2,
                       g.client))

get_storage_account_details(client, ctx, request, prov, sdk_raises, correlation_id) ==
  EndOperation(get_storage_account_details_body(client, ctx, request, prov,
                                                sdk_raises, correlation_id),
               "get_storage_account_details", request, correlation_id,
               "Insufficient permissions to access storage account: ",
               "Microsoft.Storage/storageAccounts/read", TRUE)

\* ------------------------------------------------------------------------
\* tools/network_rules.py
\* ------------------------------------------------------------------------

\* reading an attribute of None
AttributeError(attribute) ==
  [cls |-> "AttributeError", status_code |-> NoStatus,
   message |-> <<"'NoneType' object has no attribute '", attribute, "'">>]

\* the rule set of a storage account as the response reports it
NetworkRules(network_rules, correlation_id) ==
  [type |-> "NetworkRules",
   default_action |-> network_rules.default_action,
   ip_rules |-> OrEmpty(network_rules.ip_rules),
   virtual_network_rules |-> OrEmpty(network_rules.virtual_network_rules),
   resource_access_rules |-> OrEmpty(network_rules.resource_access_rules),
   bypass |-> IF network_rules.bypass = NoBypass THEN "None"
              ELSE network_rules.bypass,
   metadata |-> ResponseMetadata(correlation_id)]

\* get_network_rules from the client on: the account properties call and
\* the response built from its answer
get_network_rules_calls(client, ctx, request, prov, sdk_raises, correlation_id) ==
  With(_get_storage_client(client, ctx, request.subscription_id, sdk_raises),
    LAMBDA g :
      IF g.raised THEN Abort(g.exc, g.ctx, g.client)
      ELSE
        LET c1 == Issue(g.ctx, ProviderCall(g.value,
                          "storage_accounts.get_properties",
                          <<request.resource_group, request.account_name>>,
                          prov.main))
        IN IF prov.main.raised THEN Abort(prov.main.exc, c1, g.client)
           ELSE IF prov.main.value.network_rule_set = NoneObject
             \* network_rules.default_action on None
             THEN Abort(AttributeError("default_action"), c1, g.client)
           ELSE Done(NetworkRules(prov.main.value.network_rule_set,
                                  correlation_id),
                     c1, g.client))

\* a variant of the try block that does not validate the account name
get_network_rules_body_unvalidated_account(client, ctx, request, prov, sdk_raises, correlation_id) ==
  LET v1 == validate_subscription_id(request.subscription_id)
      v2 == validate_resource_group(request.resource_group)
  IN IF v1.raised THEN Abort(v1.exc, ctx, client)
     ELSE IF v2.raised THEN Abort(v2.exc, ctx, client)
     ELSE get_network_rules_calls(client, ctx, request, prov, sdk_raises,
                                  correlation_id)

\* the try block of get_network_rules
get_network_rules_body(client, ctx, request, prov, sdk_raises, correlation_id) ==
  LET v1 == validate_subscription_id(request.subscription_id)
      v2 == validate_resource_group(request.resource_group)
      v3 == validate_storage_account_name(request.account_name)
  IN IF v1.raised THEN Abort(v1.exc, ctx, client)
     ELSE IF v2.raised THEN Abort(v2.exc, ctx, client)
     ELSE IF v3.raised THEN Abort(v3.exc, ctx, client)
     ELSE get_network_rules_calls(client, ctx, request, prov, sdk_raises,
                                  correlation_id)

get_network_rules(client, ctx, request, prov, sdk_raises, correlation_id) ==
  EndOperation(get_network_rules_body(client, ctx, request, prov,
                                      sdk_raises, correlation_id),
               "get_network_rules", request, correlation_id,
               "Insufficient permissions to access network rules: ",
               "Microsoft.Storage/storageAccounts/read", TRUE)

PrivateEndpointConnection(connection) ==
  [name |-> connection.name, connection_state |-> connection.status]

\* a variant without the case of no private endpoints
_create_private_endpoints_summary_counting(private_endpoints, account_name) ==
  <<"Found ">> \o FormatInt(Len(private_endpoints))
    \o <<" private endpoint">> \o Plural(Len(private_endpoints))
    \o <<" for '">> \o account_name \o <<"'. Connection states: ">>
    \o Distribution([i \in DOMAIN private_endpoints |->
                       private_endpoints[i].connection_state])

_create_private_endpoints_summary(private_endpoints, account_name) ==
  IF private_endpoints = <<>>
    THEN <<"No private endpoints configured for storage account '">>
           \o account_name \o <<"'">>
    ELSE <<"Found ">> \o FormatInt(Len(private_endpoints))
           \o <<" private endpoint">> \o Plural(Len(private_endpoints))
           \o <<" for '">> \o account_name \o <<"'. Connection states: ">>
           \o Distribution([i \in DOMAIN private_endpoints |->
                              private_endpoints[i].connection_state])

\* GetPrivateEndpointsResponse(...) as get_private_endpoints builds it
GetPrivateEndpointsResponse(private_endpoints, request, correlation_id) ==
  [type |-> "GetPrivateEndpointsResponse",
   private_endpoints |-> private_endpoints,
   total_count |-> Len(private_endpoints),
   metadata |-> ResponseMetadata(correlation_id),
   summary |-> _create_private_endpoints_summary(private_endpoints,
                                                 request.account_name)]

\* the inner handler of get_private_endpoints: a 404 means no private
\* endpoints
NoPrivateEndpoints(r) ==
  /\ r.raised
  /\ IsHttpResponseError(r.exc)
  /\ r.exc.status_code = NotFoundStatus

\* the try block of get_private_endpoints
get_private_endpoints_body(client, ctx, request, prov, sdk_raises, correlation_id) ==
  LET v1 == validate_subscription_id(request.subscription_id)
      v2 == validate_resource_group(request.resource_group)
      v3 == validate_storage_account_name(request.account_name)
  IN IF v1.raised THEN Abort(v1.exc, ctx, client)
     ELSE IF v2.raised THEN Abort(v2.exc, ctx, client)
     ELSE IF v3.raised THEN Abort(v3.exc, ctx, client)
     ELSE
       With(_get_storage_client(client, ctx, request.subscription_id, sdk_raises),
         LAMBDA g :
           IF g.raised THEN Abort(g.exc, g.ctx, g.client)
           ELSE
             LET c1 == Issue(g.ctx, ProviderCall(g.value,
                               "private_endpoint_connections.list",
                               <<request.resource_group, request.account_name>>,
                               prov.main))
             IN IF NoPrivateEndpoints(prov.main)
                  THEN Done(GetPrivateEndpointsResponse(<<>>, request,
                                                        correlation_id),
                            c1, g.client)
                ELSE IF prov.main.raised
                  THEN Abort(prov.main.exc, c1, g.client)
                ELSE Done(GetPrivateEndpointsResponse(
                            [i \in 1..Len(prov.main.value) |->
                               PrivateEndpointConnection(prov.main.value[i])],
                            request, correlation_id),
                          c1, g.client))

get_private_endpoints(client, ctx, request, prov, sdk_raises, correlation_id) ==
  EndOperation(get_private_endpoints_body(client, ctx, request, prov,
                                          sdk_raises, correlation_id),
               "get_private_endpoints", request, correlation_id,
               "Insufficient permissions to access private endpoints: ",
               "Microsoft.Storage/storageAccounts/privateEndpointConnections/read",
               TRUE)

\* ------------------------------------------------------------------------
\* tools/metrics.py
\* ------------------------------------------------------------------------

Chars_average == <<"a","v","e","r","a","g","e">>

Chars_total == <<"t","o","t","a","l">>

Chars_maximum == <<"m","a","x","i","m","u","m">>

Chars_minimum == <<"m","i","n","i","m","u","m">>

Chars_count == <<"c","o","u","n","t">>

\* a data point attribute that is None
NoValue == -1

\* the attribute of a data point that _has_metric_value and
\* _get_metric_value read for an aggregation type
AggregationField(aggregation_type) ==
  LET a == Lower(aggregation_type)
  IN IF a = Chars_average THEN "average"
     ELSE IF a = Chars_total THEN "total"
     ELSE IF a = Chars_maximum THEN "maximum"
     ELSE IF a = Chars_minimum THEN "minimum"
     ELSE IF a = Chars_count THEN "count"
     ELSE "average"

_has_metric_value(data_point, aggregation_type) ==
  data_point[AggregationField(aggregation_type)] # NoValue

\* "x or 0"
_get_metric_value(data_point, aggregation_type) ==
  LET x == data_point[AggregationField(aggregation_type)]
  IN IF x = NoValue THEN 0 ELSE x

\* dict assignment d[k] = v
Put(d, k, v) == [x \in DOMAIN d \cup {k} |-> IF x = k THEN v ELSE d[x]]

EmptyDict == [x \in {} |-> 0]

\* total_value / count, as a fraction
Quotient(total, count) == [num |-> total, den |-> count]

Zero == [num |-> 0, den |-> 1]

ResourceId(request) ==
  <<"/subscriptions/">> \o request.subscription_id
    \o <<"/resourceGroups/">> \o request.resource_group
    \o <<"/providers/Microsoft.Storage/storageAccounts/">> \o request.account_name

\* the data points of a metric result that carry a time stamp and a value
RECURSIVE DataPoints(_, _)
DataPoints(data, aggregation_type) ==
  IF data = <<>> THEN <<>>
  ELSE LET data_point == Head(data)
           rest == DataPoints(Tail(data), aggregation_type)
       IN IF data_point.time_stamp /\ _has_metric_value(data_point, aggregation_type)
            THEN <<[value |-> _get_metric_value(data_point, aggregation_type),
                    aggregation_type |-> aggregation_type]>> \o rest
            ELSE rest

RECURSIVE SumValues(_)
SumValues(points) ==
  IF points = <<>> THEN 0 ELSE Head(points).value + SumValues(Tail(points))

\* a variant that asks for the catalog a second time when the first call fails
_get_available_metrics_retrying(ctx, client, resource_id, catalog) ==
  LET call == ProviderCall(client, "metric_definitions.list", <<resource_id>>,
                           catalog)
      c == Issue(ctx, call)
  IN IF catalog.raised
       THEN [value |-> <<>>,
             ctx |-> Logged(Issue(c, call),
                            log_error(catalog.exc,
                                      [context |-> "get_available_metrics"]))]
       ELSE [value |-> catalog.value, ctx |-> c]

\* _get_available_metrics: any failure is logged and gives the empty catalog
_get_available_metrics(ctx, client, resource_id, catalog) ==
  LET c == Issue(ctx, ProviderCall(client, "metric_definitions.list",
                                   <<resource_id>>, catalog))
  IN IF catalog.raised
       THEN [value |-> <<>>,
             ctx |-> Logged(c, log_error(catalog.exc,
                                         [context |-> "get_available_metrics"]))]
       ELSE [value |-> catalog.value, ctx |-> c]

\* the loop over request.metrics, from index i on; acc is the loop state
RECURSIVE MetricsLoop(_, _, _, _, _, _, _)
MetricsLoop(i, acc, client, request, resource_id, prov, correlation_id) ==
  IF i > Len(request.metrics) \/ acc.raised THEN acc
  ELSE
    LET metric_name == request.metrics[i]
        r == prov.metric[i]
        c == Issue(acc.ctx, ProviderCall(client, "metrics.list",
                     <<resource_id, metric_name, request.aggregation_type>>, r))
        next ==
          IF ~r.raised
            THEN LET data_points == DataPoints(r.value, request.aggregation_type)
                     total_value == SumValues(data_points)
                     count == Len(data_points)
                 IN [acc EXCEPT
                       !.ctx = c,
                       !.metrics_data = Put(@, metric_name, data_points),
                       !.aggregated_summary =
                          Put(@, metric_name,
                              IF count > 0 THEN Quotient(total_value, count)
                              ELSE Zero)]
          ELSE IF IsHttpResponseError(r.exc)
            THEN [acc EXCEPT
                    !.ctx = Logged(c, log_error(r.exc,
                                     [metric_name |-> metric_name,
                                      correlation_id |-> correlation_id])),
                    !.metrics_data = Put(@, metric_name, <<>>),
                    !.aggregated_summary = Put(@, metric_name, Zero)]
          ELSE [acc EXCEPT !.ctx = c, !.raised = TRUE, !.exc = r.exc]
    IN MetricsLoop(i + 1, next, client, request, resource_id, prov, correlation_id)

\* the state of the loop before its first iteration
LoopStart(ctx) ==
  [ctx |-> ctx, metrics_data |-> EmptyDict, aggregated_summary |-> EmptyDict,
   raised |-> FALSE, exc |-> NoneObject]

\* 1024 * 1024 * 1024
GiB == 1073741824

\* n / d rounded to an integer, halves to the even neighbour (n >= 0, d > 0)
RoundHalfEven(n, d) ==
  LET f == n \div d
      r == n % d
  IN IF r + r < d THEN f
     ELSE IF r + r > d THEN f + 1
     ELSE IF f % 2 = 0 THEN f ELSE f + 1

\* f"{value:.2f}" for value = n / d: the hundredths, rounded.  The rounding
\* is exact for the values whose hundredths are no tie in binary floating
\* point, which holds for the means of small integers.
Fixed2(n, d) ==
  LET h == RoundHalfEven(n * 100, d)
  IN FormatInt(h \div 100) \o <<".">> \o FormatInt((h % 100) \div 10)
       \o FormatInt(h % 10)

\* f"{value:.0f}" for value = n / d
Fixed0(n, d) == FormatInt(RoundHalfEven(n, d))

\* f"{value / (1024 * 1024 * 1024):.2f}": below half a hundredth of a GiB
\* the text is 0.00
FixedGiB(n, d) ==
  IF n < GiB \div 200 THEN <<"0", ".", "0", "0">> ELSE Fixed2(n, d * GiB)

\* the text of one item of aggregated_summary
MetricText(metric_name, value) ==
  IF metric_name = "UsedCapacity"
    THEN <<metric_name, ": ">> \o FixedGiB(value.num, value.den) \o <<" GB">>
  ELSE IF metric_name = "Transactions"
    THEN <<metric_name, ": ">> \o Fixed0(value.num, value.den)
  ELSE <<metric_name, ": ">> \o Fixed2(value.num, value.den)

\* the keys of a dict in insertion order: the names in the order of their
\* first assignment
RECURSIVE InsertionOrder(_)
InsertionOrder(names) ==
  IF names = <<>> THEN <<>>
  ELSE LET front == InsertionOrder(SubSeq(names, 1, Len(names) - 1))
           name == names[Len(names)]
       IN IF \E i \in DOMAIN front : front[i] = name THEN front
          ELSE Append(front, name)

\* ", ".join(metrics_text)
RECURSIVE JoinMetrics(_, _)
JoinMetrics(keys, aggregated_summary) ==
  IF keys = <<>> THEN <<>>
  ELSE MetricText(Head(keys), aggregated_summary[Head(keys)])
         \o (IF Tail(keys) = <<>> THEN <<>> ELSE <<", ">>)
         \o JoinMetrics(Tail(keys), aggregated_summary)

\* a variant without the test for an empty aggregated_summary
_create_metrics_summary_unguarded(request, aggregated_summary) ==
  <<"Metrics for '">> \o request.account_name \o <<"' over the last ">>
    \o request.time_range \o <<" (">> \o request.aggregation_type \o <<"): ">>
    \o JoinMetrics(InsertionOrder(request.metrics), aggregated_summary)

_create_metrics_summary(request, aggregated_summary) ==
  IF DOMAIN aggregated_summary = {}
    THEN <<"No metrics data available for '">> \o request.account_name
           \o <<"' in the last ">> \o request.time_range
    ELSE <<"Metrics for '">> \o request.account_name \o <<"' over the last ">>
           \o request.time_range \o <<" (">> \o request.aggregation_type
           \o <<"): ">>
           \o JoinMetrics(InsertionOrder(request.metrics), aggregated_summary)

\* the try block of get_storage_metrics
get_storage_metrics_body(client, ctx, request, prov, sdk_raises, correlation_id) ==
  LET v1 == validate_subscription_id(request.subscription_id)
      v2 == validate_resource_group(request.resource_group)
      v3 == validate_storage_account_name(request.account_name)
  IN IF v1.raised THEN Abort(v1.exc, ctx, client)
     ELSE IF v2.raised THEN Abort(v2.exc, ctx, client)
     ELSE IF v3.raised THEN Abort(v3.exc, ctx, client)
     ELSE
       With(_get_monitor_client(client, ctx, request.subscription_id, sdk_raises),
         LAMBDA g :
           IF g.raised THEN Abort(g.exc, g.ctx, g.client)
           ELSE
             With(_get_available_metrics(g.ctx, g.value, ResourceId(request),
                                         prov.catalog),
               LAMBDA available :
                 With(MetricsLoop(1, LoopStart(available.ctx), g.value, request,
                                  ResourceId(request), prov, correlation_id),
                   LAMBDA loop :
                     IF loop.raised THEN Abort(loop.exc, loop.ctx, g.client)
                     ELSE Done([type |-> "StorageMetrics",
                                account_name |-> request.account_name,
                                time_range |-> request.time_range,
                                metrics_data |-> loop.metrics_data,
                                aggregated_summary |-> loop.aggregated_summary,
                                available_metrics |-> available.value,
                                metadata |-> ResponseMetadata(correlation_id),
                                summary |->
                                  _create_metrics_summary(
                                    request, loop.aggregated_summary)],
                               loop.ctx, g.client))))

get_storage_metrics(client, ctx, request, prov, sdk_raises, correlation_id) ==
  EndOperation(get_storage_metrics_body(client, ctx, request, prov,
                                        sdk_raises, correlation_id),
               "get_storage_metrics", request, correlation_id,
               "Insufficient permissions to access metrics: ",
               "Microsoft.Insights/metrics/read", TRUE)

\* ------------------------------------------------------------------------
\* server.py: handle_call_tool
\* ------------------------------------------------------------------------

\* a JSON argument object; NoneObject when the call carries none
JsonObject(dict) == [object |-> dict]

\* types.TextContent(type="text", text=...)
TextContent(text) == [type |-> "text", text |-> text]

\* result.json(indent=2)
Json(result) == [json |-> result]

\* a variant without the "ERROR: " prefix
ErrorTextWithoutPrefix(category, e) == [pieces |-> <<category>> \o Str(e)]

\* f"ERROR: {category}{str(e)}"
ErrorText(category, e) == [pieces |-> <<"ERROR: ", category>> \o Str(e)]

IsErrorText(text) == "pieces" \in DOMAIN text /\ text.pieces[1] = "ERROR: "

ToolNames ==
  {"list_storage_accounts", "get_storage_account_details", "get_network_rules",
   "get_private_endpoints", "get_storage_metrics"}

\* the three tool objects of the server, by the operations they serve
ClientField(name) ==
  IF name \in {"list_storage_accounts", "get_storage_account_details"}
    THEN "storage"
  ELSE IF name \in {"get_network_rules", "get_private_endpoints"}
    THEN "network"
  ELSE "monitor"

\* the request constructor of an operation
RequestOf(name, arguments) ==
  CASE name = "list_storage_accounts" -> ListStorageAccountsRequest(arguments)
    [] name = "get_storage_account_details" -> GetStorageAccountDetailsRequest(arguments)
    [] name = "get_network_rules" -> GetNetworkRulesRequest(arguments)
    [] name = "get_private_endpoints" -> GetPrivateEndpointsRequest(arguments)
    [] name = "get_storage_metrics" -> GetStorageMetricsRequest(arguments)

\* the domain tool method of an operation
ToolOf(name, client, ctx, request, prov, sdk_raises, correlation_id) ==
  CASE name = "list_storage_accounts" ->
         list_storage_accounts(client, ctx, request, prov, sdk_raises, correlation_id)
    [] name = "get_storage_account_details" ->
         get_storage_account_details(client, ctx, request, prov, sdk_raises, correlation_id)
    [] name = "get_network_rules" ->
         get_network_rules(client, ctx, request, prov, sdk_raises, correlation_id)
    [] name = "get_private_endpoints" ->
         get_private_endpoints(client, ctx, request, prov, sdk_raises, correlation_id)
    [] name = "get_storage_metrics" ->
         get_storage_metrics(client, ctx, request, prov, sdk_raises, correlation_id)

\* a variant with a single "except Exception" clause
DispatchErrorUnclassified(e, name, arguments, ctx) ==
  [reply |-> <<TextContent(ErrorText("Unexpected error: ", e))>>,
   ctx |-> Logged(ctx, log_error(e, [tool |-> name, arguments |-> arguments]))]

\* a variant whose first clause also catches the Validator's ValidationError
DispatchErrorAnyValidation(e, name, arguments, ctx) ==
  [reply |-> <<TextContent(
                 IF IsPydanticValidationError(e) \/ e.cls = "ValidationError"
                   THEN ErrorText("Validation error: ", e)
                 ELSE IF IsDomainError(e)
                   THEN ErrorText("Azure Storage MCP error: ", e)
                 ELSE ErrorText("Unexpected error: ", e))>>,
   ctx |-> Logged(ctx, log_error(e, [tool |-> name, arguments |-> arguments]))]

\* the except clauses of handle_call_tool
DispatchError(e, name, arguments, ctx) ==
  [reply |-> <<TextContent(
                 IF IsPydanticValidationError(e)
                   THEN ErrorText("Validation error: ", e)
                 ELSE IF IsDomainError(e)
                   THEN ErrorText("Azure Storage MCP error: ", e)
                 ELSE ErrorText("Unexpected error: ", e))>>,
   ctx |-> Logged(ctx, log_error(e, [tool |-> name, arguments |-> arguments]))]

\* what handle_call_tool leaves behind: its reply, the effects, the
\* memoized clients, and what the domain tool did (if it was called)
Handled(d, clients, tool_called, tool_outcome, request) ==
  [reply |-> d.reply, ctx |-> d.ctx, clients |-> clients,
   tool_called |-> tool_called, tool_outcome |-> tool_outcome,
   request |-> request]

\* the branch of handle_call_tool for a known tool: parsed is what the
\* request constructor produced
CallDomainTool(name, arguments, parsed, clients, ctx, prov, sdk_raises, correlation_id) ==
  IF parsed.raised
    THEN Handled(DispatchError(parsed.exc, name, arguments, ctx), clients,
                 FALSE, NoneObject, NoneObject)
    ELSE With(ToolOf(name, clients[ClientField(name)], ctx, parsed.value, prov,
                     sdk_raises, correlation_id),
           LAMBDA t :
             Handled(IF t.outcome.raised
                       THEN DispatchError(t.outcome.exc, name, arguments, t.ctx)
                       ELSE [reply |-> <<TextContent(Json(t.outcome.value))>>,
                             ctx |-> t.ctx],
                     [clients EXCEPT ![ClientField(name)] = t.client],
                     TRUE, t.outcome, parsed.value))

\* "if arguments is None: arguments = {}"
ArgumentsOrEmpty(raw_arguments) ==
  IF raw_arguments = NoneObject THEN EmptyDict ELSE raw_arguments.object

\* handle_call_tool(name, arguments).  clients maps "storage", "network"
\* and "monitor" to the memoized client of the tool object.
handle_call_tool(name, raw_arguments, clients, ctx, prov, sdk_raises, correlation_id) ==
  IF name \notin ToolNames
    THEN Handled(DispatchError(AzureStorageMCPError(<<"Unknown tool: ", name>>),
                               name, ArgumentsOrEmpty(raw_arguments), ctx),
                 clients, FALSE, NoneObject, NoneObject)
    ELSE CallDomainTool(name, ArgumentsOrEmpty(raw_arguments),
                        RequestOf(name, ArgumentsOrEmpty(raw_arguments)),
                        clients, ctx, prov, sdk_raises, correlation_id)

\* ------------------------------------------------------------------------
\* server.py: run
\* ------------------------------------------------------------------------

\* sys.exit(code)
SystemExit(code) == [code |-> code]

\* the process after AzureStorageMCPServer.__init__, before run: no probe
\* made, the stdio transport not started, not exited
Constructed ==
  [phase |-> "constructed", probes |-> 0, transport_started |-> FALSE,
   exit |-> NoneObject]

\* the event loop before the transport has handed it a request: no task,
\* and none running
IdleLoop == [running |-> {}, tasks |-> <<>>]

\* a variant of run that starts the transport whatever the probe answered
run_ignoring_probe(authenticated) ==
  [phase |-> "serving", probes |-> 1, transport_started |-> TRUE,
   exit |-> NoneObject]

\* run, given the answer of test_authentication: exit with status 1, or
\* start the stdio transport and serve
run(authenticated) ==
  IF ~authenticated
    THEN [phase |-> "exited", probes |-> 1, transport_started |-> FALSE,
          exit |-> SystemExit(1)]
    ELSE [phase |-> "serving", probes |-> 1, transport_started |-> TRUE,
          exit |-> NoneObject]

\* ------------------------------------------------------------------------
\* Inputs: argument objects, configurations and provider behaviours
\* ------------------------------------------------------------------------

\* aaaaaaaa-1111-2222-3333-bbbbbbbbbbbb
ValidSubscription ==
  Rep("a", 8) \o <<"-">> \o Rep("1", 4) \o <<"-">> \o Rep("2", 4) \o <<"-">>
    \o Rep("3", 4) \o <<"-">> \o Rep("b", 12)

InvalidSubscription == <<"n","o","t","-","a","-","u","u","i","d">>

ValidResourceGroup == <<"r","g","-","1">>

InvalidResourceGroup == <<"r","g"," ","1">>

ValidAccount == <<"a","c","c","t","1">>

InvalidAccount == <<"A","b">>

SecretValue == <<"s","3","c","r","3","t">>

\* a key that is not part of the argument object
Absent == <<"<absent>">>

SubscriptionInputs == {Absent, ValidSubscription, InvalidSubscription}

ResourceGroupInputs == {Absent, <<>>, ValidResourceGroup, InvalidResourceGroup}

AccountInputs == {Absent, ValidAccount, InvalidAccount}

\* the dictionary with the given (key, value) pairs, absent values left out
MakeDict(pairs) ==
  LET present == {p \in pairs : p[2] # Absent}
  IN [k \in {p[1] : p \in present} |-> (CHOOSE p \in present : p[1] = k)[2]]

Arguments(s, r, a, x) ==
  JsonObject(MakeDict({<<K_subscription_id, s>>, <<K_resource_group, r>>,
                       <<K_account_name, a>>, <<K_api_key, x>>}))

\* how many of the identifying fields differ from the valid sample
Deviations(s, r, a) ==
  (IF s = ValidSubscription THEN 0 ELSE 1)
    + (IF r = ValidResourceGroup THEN 0 ELSE 1)
    + (IF a = ValidAccount THEN 0 ELSE 1)

\* The argument objects a client sends: none at all; the valid object and
\* every object that differs from it in one identifying field; the objects
\* with no valid field; and objects that carry an unknown key holding a
\* secret next to a missing or a malformed subscription id.
ArgumentObjects ==
  {NoneObject}
    \cup {Arguments(c[1], c[2], c[3], Absent) :
            c \in {d \in SubscriptionInputs \X ResourceGroupInputs \X AccountInputs :
                     \/ Deviations(d[1], d[2], d[3]) <= 1
                     \/ d = <<Absent, Absent, Absent>>
                     \/ d = <<InvalidSubscription, InvalidResourceGroup,
                              InvalidAccount>>}}
    \cup {Arguments(s, ValidResourceGroup, ValidAccount, SecretValue) :
            s \in {Absent, InvalidSubscription}}

AuthMethods ==
  {"default", "cli", "managed_identity", "service_principal", "certificate"}

EnvValue == <<"v">>

\* os.environ restricted to the three service principal variables
Environments == [EnvVars -> {None, <<>>, EnvValue}]

\* uuid.uuid4() values
CorrelationIds == {"uuid-1"}

NoCorrelationId == ""

ClientAuthenticationFailure ==
  ProviderError("ClientAuthenticationError", 401, "token rejected")

Http403 == ProviderError("HttpResponseError", ForbiddenStatus, "forbidden")

Http404 == ProviderError("HttpResponseError", NotFoundStatus, "not found")

Http500 == ProviderError("HttpResponseError", 500, "server error")

ConnectionFailure == ProviderError("ServiceRequestError", NoStatus, "connection reset")

ProviderErrors ==
  {ClientAuthenticationFailure, Http403, Http404, Http500, ConnectionFailure}

Failures(errors) == {Raise(e) : e \in errors}

SampleRuleSet ==
  [default_action |-> "Deny", ip_rules |-> <<"10.0.0.0/24">>,
   virtual_network_rules |-> None, resource_access_rules |-> <<>>,
   bypass |-> NoBypass]

Chars_eastus == <<"e","a","s","t","u","s">>

Chars_eastus2 == <<"e","a","s","t","u","s","2">>

Chars_westus == <<"w","e","s","t","u","s">>

AccountProperties(network_rule_set) ==
  [name |-> ValidAccount, location |-> Chars_eastus,
   network_rule_set |-> network_rule_set]

SampleBlobProperties ==
  [is_versioning_enabled |-> TRUE, change_feed_enabled |-> FALSE,
   delete_retention_enabled |-> TRUE, delete_retention_days |-> 7,
   container_delete_retention_enabled |-> FALSE,
   container_delete_retention_days |-> 0,
   restore_policy_enabled |-> FALSE, restore_policy_days |-> 0,
   last_access_time_tracking_enabled |-> FALSE]

Chars_Approved == <<"A","p","p","r","o","v","e","d">>

Chars_Pending == <<"P","e","n","d","i","n","g">>

SampleConnection == [name |-> "pe-1", status |-> Chars_Approved]

\* three connections, the pending one listed first
SampleConnections ==
  <<[name |-> "pe-2", status |-> Chars_Pending], SampleConnection,
    [name |-> "pe-3", status |-> Chars_Approved]>>

DataPoint(time_stamp, average) ==
  [time_stamp |-> time_stamp, average |-> average, total |-> NoValue,
   maximum |-> NoValue, minimum |-> NoValue, count |-> NoValue]

SampleMetricData == <<DataPoint(TRUE, 4), DataPoint(TRUE, NoValue), DataPoint(TRUE, 2)>>

\* an answer that no call consumes
Unused == Return(NoneObject)

\* a failure that is not an HTTP response
IsTransportFailure(r) == r.raised /\ ~IsHttpResponseError(r.exc)

\* What the provider answers to the calls of one invocation: main is the
\* first call of the operation, blob the blob service call, catalog the
\* metric definition call, metric[i] the data call of the i-th metric.  A
\* call that is never issued has the answer Unused.
Behaviour(main, blob, catalog, metric) ==
  [main |-> main, blob |-> blob, catalog |-> catalog, metric |-> metric]

ListBehaviours ==
  {Behaviour(m, Unused, Unused, <<>>) :
     m \in {Return(<<>>),
            Return(<<[name |-> ValidAccount, location |-> Chars_eastus]>>)}
           \cup Failures(ProviderErrors)}

PropertiesAnswers ==
  {Return(AccountProperties(NoneObject)), Return(AccountProperties(SampleRuleSet))}

DetailsBehaviours ==
  {Behaviour(m, Unused, Unused, <<>>) : m \in Failures(ProviderErrors)}
    \cup {Behaviour(m, b, Unused, <<>>) :
            m \in PropertiesAnswers,
            b \in {Return(SampleBlobProperties)} \cup Failures(ProviderErrors)}

NetworkRulesBehaviours ==
  {Behaviour(m, Unused, Unused, <<>>) :
     m \in PropertiesAnswers \cup Failures(ProviderErrors)}

PrivateEndpointsBehaviours ==
  {Behaviour(m, Unused, Unused, <<>>) :
     m \in {Return(<<>>), Return(<<SampleConnection>>), Return(SampleConnections)}
           \cup Failures(ProviderErrors)}

MetricsBehaviours ==
  {Behaviour(Unused, Unused, c, ms) :
     c \in {Return(<<>>)} \cup Failures({Http403, ConnectionFailure}),
     ms \in {f \in [1..Len(DefaultMetrics) ->
                      {Unused, Return(SampleMetricData)}
                        \cup Failures({Http403, Http404, ConnectionFailure})] :
               \A i \in 1..Len(DefaultMetrics) :
                  (f[i] = Unused) <=>
                    (\E j \in 1..(i - 1) : IsTransportFailure(f[j]))}}

NoBehaviour == Behaviour(Unused, Unused, Unused, <<>>)

ProviderBehaviours(name) ==
  CASE name = "list_storage_accounts" -> ListBehaviours
    [] name = "get_storage_account_details" -> DetailsBehaviours
    [] name = "get_network_rules" -> NetworkRulesBehaviours
    [] name = "get_private_endpoints" -> PrivateEndpointsBehaviours
    [] name = "get_storage_metrics" -> MetricsBehaviours
    [] OTHER -> {NoBehaviour}

\* a behaviour in which the first call of every operation fails
Failing ==
  [list_storage_accounts |->
     Behaviour(Raise(ConnectionFailure), Unused, Unused, <<>>),
   get_storage_account_details |->
     Behaviour(Raise(ConnectionFailure), Unused, Unused, <<>>),
   get_network_rules |->
     Behaviour(Raise(ConnectionFailure), Unused, Unused, <<>>),
   get_private_endpoints |->
     Behaviour(Raise(ConnectionFailure), Unused, Unused, <<>>),
   get_storage_metrics |->
     Behaviour(Unused, Unused, Raise(ConnectionFailure),
               <<Raise(ConnectionFailure), Unused>>)]

\* the answer of the identity provider to a token request
Token == [token |-> "bearer"]

TokenOutcomes ==
  {Return(Token), Return(NoneObject)}
    \cup Failures({ClientAuthenticationFailure, ConnectionFailure})

\* ------------------------------------------------------------------------
\* Specification
\* ------------------------------------------------------------------------

NoEnvironment == [v \in EnvVars |-> None]

\* The configurations the server is started with: a working strategy, the
\* service principal strategy with and without its secret, and an
\* unrecognized strategy.
Configurations ==
  {<<"default", NoEnvironment>>,
   <<"service_principal", [NoEnvironment EXCEPT !["AZURE_TENANT_ID"] = EnvValue,
                                               !["AZURE_CLIENT_ID"] = EnvValue]>>}

\* AzureStorageMCPServer.__init__ with a given configuration
InitWith(method, env) ==
  /\ auth_method = method
  /\ environ = env
  /\ _credential = NoCredential
  /\ handles = 0
  /\ _storage_client = NoClient
  /\ _network_client = NoClient
  /\ _monitor_client = NoClient
  /\ last = [handler |-> "none"]
  /\ log = <<>>
  /\ provider_calls = <<>>
  /\ process = Constructed
  /\ event_loop = IdleLoop

Init == \E c \in Configurations : InitWith(c[1], c[2])

Clients ==
  [storage |-> _storage_client, network |-> _network_client,
   monitor |-> _monitor_client]

\* the state after handle_call_tool returned r
AfterCall(name, raw_arguments, correlation_id, r) ==
  /\ _credential' = r.ctx.credential
  /\ handles' = r.ctx.handles
  /\ _storage_client' = r.clients.storage
  /\ _network_client' = r.clients.network
  /\ _monitor_client' = r.clients.monitor
  /\ last' = [handler |-> "handle_call_tool", name |-> name,
              arguments |-> raw_arguments, request |-> r.request,
              tool_called |-> r.tool_called, tool_outcome |-> r.tool_outcome,
              correlation_id |-> IF r.tool_called THEN correlation_id
                                 ELSE NoCorrelationId,
              reply |-> r.reply,
              cred_returns |-> r.ctx.cred_returns,
              cred_raises |-> r.ctx.cred_raises,
              create_attempts |-> r.ctx.create_attempts,
              clients_created |-> r.ctx.clients_created]
  /\ log' = r.ctx.log
  /\ provider_calls' = r.ctx.calls
  /\ UNCHANGED <<auth_method, environ, process, event_loop>>

\* One call of handle_call_tool.  The provider's answers and the outcome of
\* the credential constructor are chosen only when the call consumes them:
\* probe is the call with a failing provider and a working constructor.
CallTool(name, raw_arguments, correlation_id, probe) ==
  \/ /\ probe.ctx.calls = <<>>
     /\ probe.ctx.create_attempts = 0
     /\ AfterCall(name, raw_arguments, correlation_id, probe)
  \/ /\ probe.ctx.calls # <<>>
     /\ \E prov \in ProviderBehaviours(name) :
          AfterCall(name, raw_arguments, correlation_id,
                    handle_call_tool(name, raw_arguments, Clients,
                                     Context(_credential, handles), prov, FALSE,
                                     correlation_id))
  \/ /\ probe.ctx.create_attempts > 0
     /\ AfterCall(name, raw_arguments, correlation_id,
                  handle_call_tool(name, raw_arguments, Clients,
                                   Context(_credential, handles), NoBehaviour,
                                   TRUE, correlation_id))

Probe(name, raw_arguments, correlation_id) ==
  handle_call_tool(name, raw_arguments, Clients, Context(_credential, handles),
                   IF name \in ToolNames THEN Failing[name] ELSE NoBehaviour,
                   FALSE, correlation_id)

CallListStorageAccounts ==
  \E raw_arguments \in ArgumentObjects, correlation_id \in CorrelationIds :
    CallTool("list_storage_accounts", raw_arguments, correlation_id,
             Probe("list_storage_accounts", raw_arguments, correlation_id))

CallGetStorageAccountDetails ==
  \E raw_arguments \in ArgumentObjects, correlation_id \in CorrelationIds :
    CallTool("get_storage_account_details", raw_arguments, correlation_id,
             Probe("get_storage_account_details", raw_arguments, correlation_id))

CallGetNetworkRules ==
  \E raw_arguments \in ArgumentObjects, correlation_id \in CorrelationIds :
    CallTool("get_network_rules", raw_arguments, correlation_id,
             Probe("get_network_rules", raw_arguments, correlation_id))

CallGetPrivateEndpoints ==
  \E raw_arguments \in ArgumentObjects, correlation_id \in CorrelationIds :
    CallTool("get_private_endpoints", raw_arguments, correlation_id,
             Probe("get_private_endpoints", raw_arguments, correlation_id))

CallGetStorageMetrics ==
  \E raw_arguments \in ArgumentObjects, correlation_id \in CorrelationIds :
    CallTool("get_storage_metrics", raw_arguments, correlation_id,
             Probe("get_storage_metrics", raw_arguments, correlation_id))

CallUnknownTool ==
  \E raw_arguments \in ArgumentObjects, correlation_id \in CorrelationIds :
    CallTool("delete_storage_account", raw_arguments, correlation_id,
             Probe("delete_storage_account", raw_arguments, correlation_id))

\* the state after test_authentication returned r
AfterTest(r) ==
  /\ _credential' = r.ctx.credential
  /\ handles' = r.ctx.handles
  /\ last' = [handler |-> "test_authentication", result |-> r.value,
              cred_returns |-> r.ctx.cred_returns,
              cred_raises |-> r.ctx.cred_raises,
              create_attempts |-> r.ctx.create_attempts,
              clients_created |-> r.ctx.clients_created]
  /\ log' = r.ctx.log
  /\ provider_calls' = r.ctx.calls
  /\ UNCHANGED <<auth_method, environ, _storage_client, _network_client,
                 _monitor_client, event_loop>>

\* one call of AzureAuthManager.test_authentication
TestAuthentication ==
  \E token \in TokenOutcomes,
     sdk_raises \in IF _credential = NoCredential THEN BOOLEAN ELSE {FALSE} :
    /\ AfterTest(test_authentication(Context(_credential, handles), sdk_raises, token))
    /\ UNCHANGED process

Next ==
  \/ CallListStorageAccounts
  \/ CallGetStorageAccountDetails
  \/ CallGetNetworkRules
  \/ CallGetPrivateEndpoints
  \/ CallGetStorageMetrics
  \/ CallUnknownTool
  \/ TestAuthentication

Spec == Init /\ [][Next]_vars

\* The auth manager under every configuration: the strategy is any of the
\* recognized ones or an unrecognized one, and each service principal
\* variable is unset, empty or set.  Credentials are requested by
\* test_authentication and by a domain tool called with valid arguments.
InitAuth ==
  \E method \in AuthMethods, env \in Environments : InitWith(method, env)

ValidArguments ==
  Arguments(ValidSubscription, ValidResourceGroup, ValidAccount, Absent)

CallWithValidArguments ==
  \E correlation_id \in CorrelationIds :
    CallTool("get_storage_account_details", ValidArguments, correlation_id,
             Probe("get_storage_account_details", ValidArguments, correlation_id))

NextAuth ==
  \/ TestAuthentication
  \/ CallWithValidArguments

SpecAuth == InitAuth /\ [][NextAuth]_vars

\* The process started by main(): run makes the authentication probe and
\* either exits or starts the transport; the transport then dispatches tool
\* calls to handle_call_tool.
AfterRun(r) ==
  /\ AfterTest(r)
  /\ process' = run(r.value)

Run ==
  /\ process.phase = "constructed"
  /\ \E token \in TokenOutcomes, sdk_raises \in BOOLEAN :
       AfterRun(test_authentication(Context(_credential, handles), sdk_raises,
                                    token))

ServeListStorageAccounts ==
  process.transport_started /\ CallListStorageAccounts

ServeGetStorageAccountDetails ==
  process.transport_started /\ CallGetStorageAccountDetails

ServeGetNetworkRules ==
  process.transport_started /\ CallGetNetworkRules

ServeGetPrivateEndpoints ==
  process.transport_started /\ CallGetPrivateEndpoints

ServeGetStorageMetrics ==
  process.transport_started /\ CallGetStorageMetrics

ServeUnknownTool ==
  process.transport_started /\ CallUnknownTool

NextRun ==
  \/ Run
  \/ ServeListStorageAccounts
  \/ ServeGetStorageAccountDetails
  \/ ServeGetNetworkRules
  \/ ServeGetPrivateEndpoints
  \/ ServeGetStorageMetrics
  \/ ServeUnknownTool

SpecRun == Init /\ [][NextRun]_vars

\* _create_list_summary on its own: every list of at most MaxAccounts
\* accounts in the sample regions, with no resource group, an empty one and
\* a named one.
MaxAccounts == 3

Regions == {Chars_eastus, Chars_eastus2, Chars_westus}

AccountLists ==
  UNION {[1..n -> [name : {ValidAccount}, location : Regions]] : n \in 0..MaxAccounts}

SummaryRequests ==
  {[subscription_id |-> ValidSubscription, resource_group |-> rg,
    include_deleted |-> PyFalse] : rg \in {None, <<>>, ValidResourceGroup}}

CreateListSummary ==
  \E accounts \in AccountLists, request \in SummaryRequests :
    /\ last' = [handler |-> "_create_list_summary", accounts |-> accounts,
                request |-> request,
                summary |-> _create_list_summary(accounts, request)]
    /\ UNCHANGED <<auth_method, environ, _credential, handles, _storage_client,
                   _network_client, _monitor_client, log, provider_calls,
                   process, event_loop>>

InitSummary == InitWith("default", NoEnvironment)

NextSummary == CreateListSummary

SpecSummary == InitSummary /\ [][NextSummary]_vars

\* SecurityValidator on its own: the names are runs of one lower case letter
\* with at most one other character, at every position, and of every length
\* from 0 to Beyond characters past the longest accepted name.
Beyond == 1

Filler == "a"

ProbeChars == {"Z", "7", ".", "_", "-", "!", "\n"}

\* the name of n characters that has c at position i (at none when i = 0)
NameWith(n, i, c) == [j \in 1..n |-> IF j = i THEN c ELSE Filler]

NameLengths == 0..(MaxResourceGroupLen + Beyond)

\* a caller holding the name it is about to validate
InitValidators ==
  \E n \in NameLengths, i \in 0..(MaxResourceGroupLen + Beyond), c \in ProbeChars :
    /\ i <= n
    /\ auth_method = "default"
    /\ environ = NoEnvironment
    /\ _credential = NoCredential
    /\ handles = 0
    /\ _storage_client = NoClient
    /\ _network_client = NoClient
    /\ _monitor_client = NoClient
    /\ last = [handler |-> "none", name |-> NameWith(n, i, c)]
    /\ log = <<>>
    /\ provider_calls = <<>>
    /\ process = Constructed
    /\ event_loop = IdleLoop

ValidatorFrame ==
  UNCHANGED <<auth_method, environ, _credential, handles, _storage_client,
              _network_client, _monitor_client, log, provider_calls, process,
              event_loop>>

ValidateResourceGroup ==
  /\ last.handler = "none"
  /\ last' = [handler |-> "validate_resource_group", name |-> last.name,
              outcome |-> validate_resource_group(last.name)]
  /\ ValidatorFrame

ValidateStorageAccountName ==
  /\ last.handler = "none"
  /\ last' = [handler |-> "validate_storage_account_name", name |-> last.name,
              outcome |-> validate_storage_account_name(last.name)]
  /\ ValidatorFrame

NextValidators ==
  \/ ValidateResourceGroup
  \/ ValidateStorageAccountName

SpecValidators == InitValidators /\ [][NextValidators]_vars

\* One server whose clients send requests for two subscriptions: every tool
\* is called with the valid resource group and account and with either
\* subscription id or a malformed one, each invocation under either
\* correlation id.
OtherSubscription ==
  Rep("c", 8) \o <<"-">> \o Rep("4", 4) \o <<"-">> \o Rep("5", 4) \o <<"-">>
    \o Rep("6", 4) \o <<"-">> \o Rep("d", 12)

ValidSubscriptions == {ValidSubscription, OtherSubscription}

RequestedSubscriptions == ValidSubscriptions \cup {InvalidSubscription}

InvocationIds == {"uuid-1", "uuid-2"}

\* a behaviour in which every call of every operation is answered
Answering ==
  [list_storage_accounts |->
     Behaviour(Return(<<[name |-> ValidAccount, location |-> Chars_eastus]>>),
               Unused, Unused, <<>>),
   get_storage_account_details |->
     Behaviour(Return(AccountProperties(SampleRuleSet)),
               Return(SampleBlobProperties), Unused, <<>>),
   get_network_rules |->
     Behaviour(Return(AccountProperties(SampleRuleSet)), Unused, Unused, <<>>),
   get_private_endpoints |->
     Behaviour(Return(<<SampleConnection>>), Unused, Unused, <<>>),
   get_storage_metrics |->
     Behaviour(Unused, Unused, Return(<<>>),
               [i \in 1..Len(DefaultMetrics) |-> Return(SampleMetricData)])]

\* a behaviour in which the first call of the operation fails with e
FailingWith(name, e) ==
  IF name = "get_storage_metrics"
    THEN Behaviour(Unused, Unused, Raise(e),
                   <<Raise(e), IF IsTransportFailure(Raise(e)) THEN Unused
                               ELSE Return(SampleMetricData)>>)
    ELSE Behaviour(Raise(e), Unused, Unused, <<>>)

\* one call of handle_call_tool for tool name; the provider answers every
\* call or fails the first one, and the credential constructor, when the call
\* reaches it, works or raises
CallForSubscription(name) ==
  \E subscription_id \in RequestedSubscriptions,
     correlation_id \in InvocationIds,
     prov \in {Answering[name]} \cup {FailingWith(name, e) : e \in ProviderErrors},
     sdk_raises \in IF _credential = NoCredential THEN BOOLEAN ELSE {FALSE} :
    AfterCall(name,
              Arguments(subscription_id, ValidResourceGroup, ValidAccount, Absent),
              correlation_id,
              handle_call_tool(name,
                               Arguments(subscription_id, ValidResourceGroup,
                                         ValidAccount, Absent),
                               Clients, Context(_credential, handles), prov,
                               sdk_raises, correlation_id))

ListForSubscription == CallForSubscription("list_storage_accounts")

DetailsForSubscription == CallForSubscription("get_storage_account_details")

NetworkRulesForSubscription == CallForSubscription("get_network_rules")

PrivateEndpointsForSubscription == CallForSubscription("get_private_endpoints")

MetricsForSubscription == CallForSubscription("get_storage_metrics")

NextSubscriptions ==
  \/ ListForSubscription
  \/ DetailsForSubscription
  \/ NetworkRulesForSubscription
  \/ PrivateEndpointsForSubscription
  \/ MetricsForSubscription

SpecSubscriptions == Init /\ [][NextSubscriptions]_vars

\* Concurrent invocations of list_storage_accounts as tasks of the event
\* loop.  The transport makes one task per request; a task runs from one
\* await expression to the next in one step.  asyncio runs an awaited
\* coroutine inside the awaiting task and gives the loop to another task only
\* when a coroutine awaits a pending future; the coroutines of this package
\* await nothing but each other and call the synchronous SDK, so the task
\* that awaits keeps the loop.
MaxTasks == 2

Task(subscription_id) ==
  [subscription_id |-> subscription_id, pc |-> "ready",
   credential |-> NoCredential, client |-> NoClient, outcome |-> NoneObject]

\* a variant in which every await gives the loop away
AfterAwaitYielding(t) == {}

\* the tasks that may run after task t awaited a coroutine of this package
AfterAwait(t) == {t}

\* the tasks that may run after task t returned its reply
AfterReply(t) == {}

TaskIds == 1..Len(event_loop.tasks)

CanRun(t) == event_loop.running \subseteq {t}

AtPc(t, pc) == event_loop.tasks[t].pc = pc /\ CanRun(t)

TaskFrame ==
  UNCHANGED <<auth_method, environ, _network_client, _monitor_client, last,
              provider_calls, process>>

\* the transport receives a request and creates its task
Submit ==
  /\ Len(event_loop.tasks) < MaxTasks
  /\ \E subscription_id \in ValidSubscriptions :
       event_loop' = [event_loop EXCEPT !.tasks = Append(@, Task(subscription_id))]
  /\ UNCHANGED <<_credential, handles, _storage_client, log>>
  /\ TaskFrame

\* handle_call_tool up to "await self.storage_tools.list_storage_accounts",
\* and list_storage_accounts up to "await self._get_storage_client"
EnterTool ==
  \E t \in TaskIds :
    /\ AtPc(t, "ready")
    /\ event_loop' = [event_loop EXCEPT !.tasks[t].pc = "_get_storage_client",
                                        !.running = AfterAwait(t)]
    /\ UNCHANGED <<_credential, handles, _storage_client, log>>
    /\ TaskFrame

\* _get_storage_client: "if self._storage_client is None", up to
\* "await self.auth_manager.get_credential()" or to the return
TestClient ==
  \E t \in TaskIds :
    /\ AtPc(t, "_get_storage_client")
    /\ event_loop' =
         IF _storage_client = NoClient
           THEN [event_loop EXCEPT !.tasks[t].pc = "get_credential",
                                   !.running = AfterAwait(t)]
           ELSE [event_loop EXCEPT !.tasks[t].pc = "have_client",
                                   !.tasks[t].client = _storage_client,
                                   !.running = {t}]
    /\ UNCHANGED <<_credential, handles, _storage_client, log>>
    /\ TaskFrame

\* the state after get_credential answered g to task t: the credential goes
\* to the caller, or the exception goes up to the dispatcher, which replies
AfterGetCredential(t, g) ==
  /\ _credential' = g.ctx.credential
  /\ handles' = g.ctx.handles
  /\ log' = log \o g.ctx.log
  /\ event_loop' =
       IF g.raised
         THEN [event_loop EXCEPT !.tasks[t].pc = "done",
                                 !.tasks[t].outcome = Raise(g.exc),
                                 !.running = AfterReply(t)]
         ELSE [event_loop EXCEPT !.tasks[t].pc = "assign",
                                 !.tasks[t].credential = g.value,
                                 !.running = {t}]
  /\ UNCHANGED _storage_client
  /\ TaskFrame

\* AzureAuthManager.get_credential, which awaits nothing
GetCredential ==
  \E t \in TaskIds, sdk_raises \in BOOLEAN :
    /\ AtPc(t, "get_credential")
    /\ AfterGetCredential(t, get_credential(Context(_credential, handles),
                                            sdk_raises))

\* _get_storage_client after the await: the assignment and the return
AssignClient ==
  \E t \in TaskIds :
    /\ AtPc(t, "assign")
    /\ _storage_client' =
         StorageManagementClient(event_loop.tasks[t].credential,
                                 event_loop.tasks[t].subscription_id)
    /\ event_loop' = [event_loop EXCEPT !.tasks[t].pc = "have_client",
                                        !.tasks[t].client = _storage_client',
                                        !.running = {t}]
    /\ UNCHANGED <<_credential, handles, log>>
    /\ TaskFrame

\* the rest of list_storage_accounts and of handle_call_tool, on the client
\* the task holds
Reply ==
  \E t \in TaskIds :
    /\ AtPc(t, "have_client")
    /\ event_loop' = [event_loop EXCEPT !.tasks[t].pc = "done",
                                        !.tasks[t].outcome =
                                          Return(event_loop.tasks[t].client),
                                        !.running = AfterReply(t)]
    /\ UNCHANGED <<_credential, handles, _storage_client, log>>
    /\ TaskFrame

NextTasks ==
  \/ Submit
  \/ EnterTool
  \/ TestClient
  \/ GetCredential
  \/ AssignClient
  \/ Reply

SpecTasks == Init /\ [][NextTasks]_vars

\* get_storage_metrics on its own: the request names at most MaxMetrics
\* metrics, with repetitions, and the provider answers each data call with
\* data points, with none, or with a failure.
MaxMetrics == 2

MetricNames == {"UsedCapacity", "Transactions", "Egress"}

MetricLists == UNION {[1..n -> MetricNames] : n \in 0..MaxMetrics}

MetricsArguments(metrics) ==
  JsonObject(MakeDict({<<K_subscription_id, ValidSubscription>>,
                       <<K_resource_group, ValidResourceGroup>>,
                       <<K_account_name, ValidAccount>>,
                       <<K_metrics, metrics>>}))

\* data points with a missing time stamp and a mean that is no integer
OtherMetricData == <<DataPoint(TRUE, 1), DataPoint(FALSE, 7), DataPoint(TRUE, 4)>>

DataAnswers ==
  {Return(SampleMetricData), Return(OtherMetricData), Return(<<>>),
   Raise(Http404), Raise(ConnectionFailure)}

\* a client about to call get_storage_metrics with a list of metrics
InitMetrics ==
  \E metrics \in MetricLists :
    /\ auth_method = "default"
    /\ environ = NoEnvironment
    /\ _credential = NoCredential
    /\ handles = 0
    /\ _storage_client = NoClient
    /\ _network_client = NoClient
    /\ _monitor_client = NoClient
    /\ last = [handler |-> "none", arguments |-> MetricsArguments(metrics)]
    /\ log = <<>>
    /\ provider_calls = <<>>
    /\ process = Constructed
    /\ event_loop = IdleLoop

\* one call of handle_call_tool for get_storage_metrics
CallMetrics ==
  /\ last.handler = "none"
  /\ \E correlation_id \in CorrelationIds,
        catalog \in {Return(<<>>), Raise(Http403)},
        metric \in [1..MaxMetrics -> DataAnswers] :
       AfterCall("get_storage_metrics", last.arguments, correlation_id,
                 handle_call_tool("get_storage_metrics", last.arguments, Clients,
                                  Context(_credential, handles),
                                  Behaviour(Unused, Unused, catalog, metric),
                                  FALSE, correlation_id))

NextMetrics == CallMetrics

SpecMetrics == InitMetrics /\ [][NextMetrics]_vars

\* ------------------------------------------------------------------------
\* Properties: vocabulary
\* ------------------------------------------------------------------------

\* the last handler invocation was a tool call through the dispatcher
Invoked == last.handler = "handle_call_tool"

\* ... and the dispatcher called the domain tool
ToolRan == Invoked /\ last.tool_called

\* the domain tool raised e to the dispatcher
ToolRaised == ToolRan /\ last.tool_outcome.raised

ToolReturned == ToolRan /\ ~last.tool_outcome.raised

\* the provider calls that abort their operation when they fail
MandatoryCalls ==
  {"storage_accounts.list", "storage_accounts.list_by_resource_group",
   "storage_accounts.get_properties", "private_endpoint_connections.list"}

\* the provider calls whose failure the operation absorbs
OptionalCalls ==
  {"blob_services.get_service_properties", "metric_definitions.list",
   "metrics.list"}

\* the provider answered call i of the last invocation with HTTP status
AnsweredStatus(i, status) ==
  /\ i \in DOMAIN provider_calls
  /\ provider_calls[i].result.raised
  /\ IsHttpResponseError(provider_calls[i].result.exc)
  /\ ~IsClientAuthenticationError(provider_calls[i].result.exc)
  /\ provider_calls[i].result.exc.status_code = status

\* the mandatory call of the last invocation was issued and failed
MandatoryFailed ==
  /\ ToolRan
  /\ provider_calls # <<>>
  /\ provider_calls[1].op \in MandatoryCalls
  /\ provider_calls[1].result.raised

\* the exception the provider raised from the mandatory call
ProviderException == provider_calls[1].result.exc

\* the permission each operation names when the provider answers 403
RequiredPermission(name) ==
  CASE name = "get_private_endpoints" ->
         "Microsoft.Storage/storageAccounts/privateEndpointConnections/read"
    [] name = "get_storage_metrics" -> "Microsoft.Insights/metrics/read"
    [] OTHER -> "Microsoft.Storage/storageAccounts/read"

\* the log records of the last invocation written by log_tool_execution
\* and log_error
IsToolRecord(record) == record.event_type \in {"tool_execution", "error"}

\* ------------------------------------------------------------------------
\* C1: validation precedes every use of the provider
\* ------------------------------------------------------------------------

\* a Validation error was raised, and the invocation obtained no credential,
\* created no client and issued no provider call
RejectedBeforeProvider ==
  /\ last.tool_outcome.raised
  /\ last.tool_outcome.exc.error_code = "VALIDATION_ERROR"
  /\ last.cred_returns = <<>>
  /\ last.create_attempts = 0
  /\ last.clients_created = 0
  /\ provider_calls = <<>>

\* a field of the request is rejected by its validator
FailsItsValidator(name, request) ==
  \/ validate_subscription_id(request.subscription_id).raised
  \/ /\ request.resource_group # None
     /\ validate_resource_group(request.resource_group).raised
  \/ /\ name # "list_storage_accounts"
     /\ validate_storage_account_name(request.account_name).raised

\* ... where list_storage_accounts submits its resource group to the
\* validator only when it is non-empty
FailsAppliedValidator(name, request) ==
  \/ validate_subscription_id(request.subscription_id).raised
  \/ /\ name = "list_storage_accounts" => Truthy(request.resource_group)
     /\ validate_resource_group(request.resource_group).raised
  \/ /\ name # "list_storage_accounts"
     /\ validate_storage_account_name(request.account_name).raised

\* C1 as stated: in every invocation of a domain tool in which an identifying
\* field fails its validator, the operation raises a Validation error and
\* obtains no credential, creates no client and issues no provider call.
C1_AsStated ==
  (ToolRan /\ FailsItsValidator(last.name, last.request))
    => RejectedBeforeProvider

\* C1, amended: in every invocation of a domain tool in which an identifying
\* field fails a validator the operation applies to it (subscription id,
\* resource group and account name; for list_storage_accounts the resource
\* group only when it is non-empty), the operation raises a Validation error
\* and obtains no credential, creates no client and issues no provider call.
C1_ValidationFirst ==
  (ToolRan /\ FailsAppliedValidator(last.name, last.request))
    => RejectedBeforeProvider

\* a metrics request with a malformed account name is rejected while a
\* credential is cached
C1_Witness ==
  /\ ToolRan
  /\ last.name = "get_storage_metrics"
  /\ last.request.account_name = InvalidAccount
  /\ RejectedBeforeProvider
  /\ _credential # NoCredential

\* ------------------------------------------------------------------------
\* C2: the dispatcher always answers with one text item
\* ------------------------------------------------------------------------

\* C2: for every tool name, argument object and outcome of the domain tool,
\* handle_call_tool returns a list of exactly one text item; on a failure
\* the text begins with "ERROR:", on success it is the JSON serialization of
\* the response.
C2_OneTextItem ==
  Invoked =>
    /\ Len(last.reply) = 1
    /\ last.reply[1].type = "text"
    /\ IF ToolReturned
         THEN last.reply[1].text = Json(last.tool_outcome.value)
         ELSE IsErrorText(last.reply[1].text)

\* a call without an argument object is answered with one error text
C2_Witness ==
  /\ Invoked
  /\ last.arguments = NoneObject
  /\ last.name = "get_storage_account_details"
  /\ Len(last.reply) = 1
  /\ IsErrorText(last.reply[1].text)

\* ------------------------------------------------------------------------
\* C3: a 403 answer of the provider
\* ------------------------------------------------------------------------

PermissionErrorRaised ==
  /\ ToolRaised
  /\ last.tool_outcome.exc.error_code = "PERMISSION_ERROR"
  /\ last.tool_outcome.exc.required_permission = RequiredPermission(last.name)

AccountNotFoundRaised ==
  /\ ToolRaised
  /\ last.tool_outcome.exc.error_code = "AZURE_API_ERROR"
  /\ "account_name" \in DOMAIN last.request
  /\ Contains(Str(last.tool_outcome.exc), last.request.account_name)

C5_Translation ==
  MandatoryFailed =>
    IF IsClientAuthenticationError(ProviderException)
      THEN /\ ToolRaised
           /\ last.tool_outcome.exc.error_code = "AUTH_ERROR"
    ELSE IF IsHttpResponseError(ProviderException)
      THEN ProviderException.status_code \notin {ForbiddenStatus, NotFoundStatus}
             => /\ ToolRaised
                /\ last.tool_outcome.exc.error_code = "AZURE_API_ERROR"
                /\ last.tool_outcome.exc.status_code
                     = ProviderException.status_code
    ELSE /\ ToolRaised
         /\ last.tool_outcome.exc.error_code = "UNKNOWN_ERROR"
         /\ Contains(Str(last.tool_outcome.exc), Str(ProviderException))

\* the account properties call of get_network_rules is answered 500
C5_Witness ==
  /\ MandatoryFailed
  /\ last.name = "get_network_rules"
  /\ ProviderException = Http500
  /\ last.tool_outcome.exc.error_code = "AZURE_API_ERROR"
  /\ last.tool_outcome.exc.status_code = 500

\* ------------------------------------------------------------------------
\* C6: the number of log records of an invocation
\* ------------------------------------------------------------------------

\* C6 as stated: every tool invocation through the dispatcher writes exactly
\* one log record, counting those of log_tool_execution and log_error in the
\* domain tool and in the dispatcher together.
C6_ExactlyOneRecord ==
  Invoked => Len(SelectSeq(log, IsToolRecord)) = 1

\* ------------------------------------------------------------------------
\* C7: redaction of sensitive parameters in log records
\* ------------------------------------------------------------------------

\* every entry of a parameter dictionary with a sensitive key holds the
\* redaction marker
Redacted(parameters) ==
  \A key \in DOMAIN parameters :
    IsSensitive(key) => parameters[key] = REDACTED

\* C7 as stated: in every log record of a tool invocation, written by the
\* domain tool or by the dispatcher, a caller-supplied parameter whose key
\* contains password, secret, key, token or credential appears only as the
\* redaction marker.
C7_SensitiveRedacted ==
  Invoked =>
    \A i \in DOMAIN log :
      /\ log[i].event_type = "tool_execution" => Redacted(log[i].parameters)
      /\ (log[i].event_type = "error" /\ "arguments" \in DOMAIN log[i].context)
           => Redacted(log[i].context.arguments)

\* ------------------------------------------------------------------------
\* C8: an account without a network rule set
\* ------------------------------------------------------------------------

\* the account properties call returned properties without a rule set
NoRuleSet ==
  /\ ToolRan
  /\ last.name \in {"get_network_rules", "get_storage_account_details"}
  /\ provider_calls # <<>>
  /\ provider_calls[1].op = "storage_accounts.get_properties"
  /\ ~provider_calls[1].result.raised
  /\ provider_calls[1].result.value.network_rule_set = NoneObject

OpenByDefault(rules) ==
  /\ rules.default_action = "Allow"
  /\ rules.ip_rules = <<>>
  /\ rules.virtual_network_rules = <<>>
  /\ rules.resource_access_rules = <<>>
  /\ rules.bypass = "AzureServices"

\* C8 as stated: when the account properties carry no network rule set,
\* get_network_rules and the network configuration of
\* get_storage_account_details succeed with default_action "Allow", empty
\* rule lists and bypass "AzureServices".
C8_DefaultRules ==
  NoRuleSet =>
    /\ ToolReturned
    /\ OpenByDefault(IF last.name = "get_network_rules"
                       THEN last.tool_outcome.value
                       ELSE last.tool_outcome.value.network_configuration)

\* C8, the part that holds: get_storage_account_details reports the default
\* configuration for an account without a rule set.
C8_DetailsDefault ==
  (NoRuleSet /\ last.name = "get_storage_account_details")
    => /\ ToolReturned
       /\ OpenByDefault(last.tool_outcome.value.network_configuration)

\* ------------------------------------------------------------------------
\* C9: the cached credential
\* ------------------------------------------------------------------------

\* C9: once a credential has been constructed and cached, every later call
\* of get_credential, from a domain tool or from test_authentication,
\* returns that same handle and constructs nothing: the cached handle and
\* the number of handles constructed do not change.
C9_Idempotent ==
  [][_credential # NoCredential =>
       /\ _credential' = _credential
       /\ handles' = handles
       /\ last'.create_attempts = 0
       /\ last'.cred_raises = <<>>
       /\ \A i \in DOMAIN last'.cred_returns :
            last'.cred_returns[i] = _credential]_vars

\* a domain tool that has no client yet is handed the credential that an
\* earlier invocation cached
C9_Witness ==
  /\ ToolRan
  /\ last.name = "get_storage_metrics"
  /\ last.create_attempts = 0
  /\ last.clients_created = 1
  /\ last.cred_returns = <<_credential>>
  /\ handles = 1

\* ------------------------------------------------------------------------
\* C10: configurations from which no credential can be constructed
\* ------------------------------------------------------------------------

RecognizedMethods == {"default", "cli", "managed_identity", "service_principal"}

\* the strategy is unrecognized, or it is service_principal and one of its
\* three variables is absent or empty
Unusable ==
  \/ auth_method \notin RecognizedMethods
  \/ /\ auth_method = "service_principal"
     /\ \E v \in EnvVars : environ[v] = None \/ environ[v] = <<>>

\* the last handler invocation called get_credential with nothing cached
ConstructionAttempted == last.handler # "none" /\ last.create_attempts > 0

IsFailedAuthentication(record) ==
  /\ record.event_type = "authentication"
  /\ ~record.success

IsAuthentication(record) == record.event_type = "authentication"

\* C10: with an unrecognized strategy, or with service_principal and one of
\* AZURE_TENANT_ID, AZURE_CLIENT_ID, AZURE_CLIENT_SECRET absent or empty,
\* get_credential on an auth manager with no cached handle raises an
\* Authentication error (AUTH_ERROR) carrying the configured strategy,
\* writes exactly one failed-authentication log record, and caches nothing.
C10_ConstructionFails ==
  (Unusable /\ ConstructionAttempted) =>
    /\ last.create_attempts = 1
    /\ last.cred_returns = <<>>
    /\ Len(last.cred_raises) = 1
    /\ last.cred_raises[1].error_code = "AUTH_ERROR"
    /\ last.cred_raises[1].auth_method = auth_method
    /\ Len(SelectSeq(log, IsFailedAuthentication)) = 1
    /\ Len(SelectSeq(log, IsAuthentication)) = 1
    /\ SelectSeq(log, IsAuthentication)[1].auth_method = auth_method
    /\ _credential = NoCredential
    /\ handles = 0

\* service_principal with an empty client secret, asked for a credential by
\* a domain tool
C10_Witness ==
  /\ auth_method = "service_principal"
  /\ environ["AZURE_TENANT_ID"] = EnvValue
  /\ environ["AZURE_CLIENT_ID"] = EnvValue
  /\ environ["AZURE_CLIENT_SECRET"] = <<>>
  /\ ToolRan
  /\ ConstructionAttempted
  /\ Len(last.cred_raises) = 1
  /\ _credential = NoCredential

\* ------------------------------------------------------------------------
\* C11: test_authentication answers with a boolean
\* ------------------------------------------------------------------------

\* the last handler invocation was test_authentication
Tested == last.handler = "test_authentication"

\* the token request of the last invocation was issued
TokenRequested ==
  /\ provider_calls # <<>>
  /\ provider_calls[Len(provider_calls)].op = "get_token"

TokenAnswer == provider_calls[Len(provider_calls)].result

\* credential construction or the token request raised
ProbeFailed ==
  \/ last.cred_raises # <<>>
  \/ TokenRequested /\ TokenAnswer.raised

\* a record of a failure: a failed authentication record or an error record
IsFailureRecord(record) ==
  \/ IsFailedAuthentication(record)
  \/ record.event_type = "error"

\* C11: test_authentication never raises.  Whatever credential construction
\* and the token request do (succeed, fail with a provider authentication
\* failure, fail with any other exception), it returns a boolean; it returns
\* true only when the token request returned a token; and when construction
\* or the token request raised, it returns false and the last record of the
\* log is the record of that failure (a failed authentication record for a
\* provider authentication failure of the token request, an error record
\* with context test_authentication otherwise).
C11_ProbeNeverRaises ==
  Tested =>
    /\ last.result \in BOOLEAN
    /\ last.result =>
         /\ TokenRequested
         /\ ~TokenAnswer.raised
         /\ TokenAnswer.value # NoneObject
         /\ last.cred_raises = <<>>
    /\ ProbeFailed =>
         /\ ~last.result
         /\ log # <<>>
         /\ IsFailureRecord(log[Len(log)])
         /\ IF last.cred_raises # <<>>
              THEN /\ log[Len(log)].event_type = "error"
                   /\ log[Len(log)].error_type = "AuthenticationError"
                   /\ log[Len(log)].context = [context |-> "test_authentication"]
                   /\ ~TokenRequested
            ELSE IF IsClientAuthenticationError(TokenAnswer.exc)
              THEN /\ IsFailedAuthentication(log[Len(log)])
                   /\ log[Len(log)].auth_method = auth_method
                   /\ log[Len(log)].error = Str(TokenAnswer.exc)
            ELSE /\ log[Len(log)].event_type = "error"
                 /\ log[Len(log)].error_message = Str(TokenAnswer.exc)
                 /\ log[Len(log)].context = [context |-> "test_authentication"]

\* the identity provider rejects the token request made with a cached
\* credential
C11_Witness ==
  /\ Tested
  /\ last.result = FALSE
  /\ last.create_attempts = 0
  /\ TokenRequested
  /\ TokenAnswer.raised
  /\ IsClientAuthenticationError(TokenAnswer.exc)
  /\ Len(log) = 1
  /\ IsFailedAuthentication(log[1])

\* ------------------------------------------------------------------------
\* C12: the order of startup
\* ------------------------------------------------------------------------

\* C12: the server makes exactly one authentication probe before the
\* transport is started; no tool operation is dispatched before the probe
\* has returned true; and when the probe returns false the process exits
\* with status 1, the transport is never started and no operation is served
\* (the probe remains the last handler that ran).
C12_StartupOrder ==
  /\ process.transport_started =>
       /\ process.probes = 1
       /\ process.exit = NoneObject
       /\ _credential # NoCredential
  /\ Invoked =>
       /\ process.transport_started
       /\ process.probes = 1
  /\ (Tested /\ ~last.result) =>
       /\ process.phase = "exited"
       /\ process.exit # NoneObject
       /\ process.exit.code # 0
       /\ ~process.transport_started
       /\ process.probes = 1
  /\ process.phase = "exited" => (Tested /\ ~last.result)
  /\ process.probes = 0 => last.handler = "none"

\* once the process has exited nothing runs any more
C12_ExitIsFinal ==
  [][process.phase = "exited" => UNCHANGED vars]_vars

\* the probe fails on the provider's refusal and the process exits
C12_Witness ==
  /\ process.phase = "exited"
  /\ process.exit = SystemExit(1)
  /\ Tested
  /\ ~last.result
  /\ TokenRequested
  /\ _credential # NoCredential

\* a tool operation is served after a successful probe
C12_ServedWitness ==
  /\ process.phase = "serving"
  /\ ToolReturned
  /\ process.probes = 1

\* ------------------------------------------------------------------------
\* C13: the optional blob service call of get_storage_account_details
\* ------------------------------------------------------------------------

\* the last invocation ran get_storage_account_details and issued provider
\* calls
DetailsCalled ==
  /\ ToolRan
  /\ last.name = "get_storage_account_details"
  /\ provider_calls # <<>>

\* the blob service projection with all flags false and all days null
DefaultBlobProjection(p) ==
  /\ ~p.versioning_enabled
  /\ ~p.change_feed_enabled
  /\ ~p.soft_delete_enabled
  /\ p.soft_delete_retention_days = NullDays
  /\ ~p.container_soft_delete_enabled
  /\ p.container_soft_delete_retention_days = NullDays
  /\ ~p.restore_policy_enabled
  /\ p.restore_policy_days = NullDays
  /\ ~p.last_access_time_tracking_enabled

\* the blob service call was issued and failed
BlobCallFailed ==
  /\ DetailsCalled
  /\ Len(provider_calls) = 2
  /\ provider_calls[2].op = "blob_services.get_service_properties"
  /\ provider_calls[2].result.raised

\* the error codes of the domain errors a tool raises for a provider failure
TranslatedCodes ==
  {"AUTH_ERROR", "PERMISSION_ERROR", "AZURE_API_ERROR", "UNKNOWN_ERROR"}

\* C13: in get_storage_account_details a failure of the blob service
\* properties call is caught, logged by log_error with context
\* get_blob_properties, and replaced by the default projection (all flags
\* false, all retention days null), and the operation returns a successful
\* response; a failure of the account properties call aborts the operation
\* with a translated error and no blob service call is issued.
C13_OptionalBlobCall ==
  /\ BlobCallFailed =>
       /\ ToolReturned
       /\ DefaultBlobProjection(last.tool_outcome.value.blob_service_properties)
       /\ \E i \in DOMAIN log :
            /\ log[i] = log_error(provider_calls[2].result.exc,
                                  [context |-> "get_blob_properties"])
       /\ log[Len(log)].event_type = "tool_execution"
       /\ log[Len(log)].success
       /\ ~IsErrorText(last.reply[1].text)
  /\ (DetailsCalled /\ provider_calls[1].result.raised) =>
       /\ provider_calls[1].op = "storage_accounts.get_properties"
       /\ Len(provider_calls) = 1
       /\ ToolRaised
       /\ IsDomainError(last.tool_outcome.exc)
       /\ last.tool_outcome.exc.error_code \in TranslatedCodes

\* the blob service call is refused while the account properties are read
C13_Witness ==
  /\ BlobCallFailed
  /\ provider_calls[2].result.exc = Http403
  /\ ~provider_calls[1].result.raised
  /\ ToolReturned
  /\ DefaultBlobProjection(last.tool_outcome.value.blob_service_properties)

\* ------------------------------------------------------------------------
\* C14: failures while fetching metrics
\* ------------------------------------------------------------------------

\* the last invocation ran get_storage_metrics and issued provider calls
MetricsCalled ==
  /\ ToolRan
  /\ last.name = "get_storage_metrics"
  /\ provider_calls # <<>>

\* the failure of provider call i was logged by log_error
FailureLogged(i) ==
  \E j \in DOMAIN log :
    /\ log[j].event_type = "error"
    /\ log[j].error_message = Str(provider_calls[i].result.exc)

\* every requested metric was fetched, in the order of the request, after
\* the catalog
AllMetricsFetched ==
  /\ Len(provider_calls) = 1 + Len(last.request.metrics)
  /\ provider_calls[1].op = "metric_definitions.list"
  /\ \A i \in 1..Len(last.request.metrics) :
       /\ provider_calls[i + 1].op = "metrics.list"
       /\ provider_calls[i + 1].args[2] = last.request.metrics[i]

\* the response holds the empty substitute for the failed call i
EmptySubstitute(i) ==
  IF provider_calls[i].op = "metric_definitions.list"
    THEN last.tool_outcome.value.available_metrics = <<>>
    ELSE /\ last.tool_outcome.value.metrics_data[provider_calls[i].args[2]] = <<>>
         /\ last.tool_outcome.value.aggregated_summary[provider_calls[i].args[2]]
              = Zero

\* C14 as stated: in get_storage_metrics any failure while fetching one
\* metric's data or the metric definition catalog does not abort the
\* operation: the failure is logged, the metric gets an empty series and the
\* aggregated value 0 (the catalog becomes empty), every remaining metric is
\* still fetched in order, and the operation returns a successful response.
C14_BatchContinues ==
  (MetricsCalled /\ \E i \in DOMAIN provider_calls : provider_calls[i].result.raised)
    => /\ ToolReturned
       /\ AllMetricsFetched
       /\ \A i \in DOMAIN provider_calls :
            provider_calls[i].result.raised =>
              (FailureLogged(i) /\ EmptySubstitute(i))

\* C14, the part that holds: a failure of the catalog call of any kind, and
\* a failure of a metric data call that is an HTTP response error, are
\* logged and replaced by the empty substitute, and the batch goes on.
C14_HttpFailureAbsorbed ==
  (/\ MetricsCalled
   /\ \E i \in DOMAIN provider_calls : provider_calls[i].result.raised
   /\ \A i \in DOMAIN provider_calls :
        (provider_calls[i].op = "metrics.list" /\ provider_calls[i].result.raised)
          => IsHttpResponseError(provider_calls[i].result.exc))
    => /\ ToolReturned
       /\ AllMetricsFetched
       /\ \A i \in DOMAIN provider_calls :
            provider_calls[i].result.raised =>
              (FailureLogged(i) /\ EmptySubstitute(i))

\* a metric data call that fails without an HTTP response ends the batch:
\* the operation raises UNKNOWN_ERROR and fetches no further metric
C14_TransportFailureAborts ==
  (MetricsCalled
   /\ \E i \in DOMAIN provider_calls :
        /\ provider_calls[i].op = "metrics.list"
        /\ IsTransportFailure(provider_calls[i].result))
    => /\ ToolRaised
       /\ last.tool_outcome.exc.error_code = "UNKNOWN_ERROR"
       /\ IsTransportFailure(provider_calls[Len(provider_calls)].result)

\* ------------------------------------------------------------------------
\* C15: the dispatcher's classification of errors
\* ------------------------------------------------------------------------

\* the fields each request schema requires
RequiredFields(name) ==
  IF name = "list_storage_accounts" THEN {K_subscription_id}
  ELSE {K_subscription_id, K_resource_group, K_account_name}

\* the arguments of the last call lack a required field of the schema
SchemaMismatch ==
  /\ Invoked
  /\ last.name \in ToolNames
  /\ \E k \in RequiredFields(last.name) :
       last.arguments = NoneObject \/ k \notin DOMAIN last.arguments.object

\* the pieces of the one text item of the reply
ReplyPieces == last.reply[1].text.pieces

\* exceptions that are neither schema errors nor domain errors
OtherExceptions ==
  ProviderErrors
    \cup {SdkConstructorError, AttributeError("default_action")}

\* C15: a call whose arguments do not match the request schema (a required
\* field missing, or no arguments at all) is answered with a text starting
\* "ERROR: Validation error:" and invokes no domain tool; a call with a name
\* outside the five operations is answered with exactly "ERROR: Azure
\* Storage MCP error: Unknown tool: <name>" and invokes no domain tool; a
\* domain error raised by a tool is answered with "ERROR: Azure Storage MCP
\* error: <message>"; and the except clauses answer any other exception with
\* "ERROR: Unexpected error: <message>".
C15_Classification ==
  /\ SchemaMismatch =>
       /\ ~last.tool_called
       /\ SubSeq(ReplyPieces, 1, 2) = <<"ERROR: ", "Validation error: ">>
  /\ (Invoked /\ last.name \notin ToolNames) =>
       /\ ~last.tool_called
       /\ ReplyPieces
            = <<"ERROR: ", "Azure Storage MCP error: ", "Unknown tool: ", last.name>>
  /\ ToolRaised =>
       /\ IsDomainError(last.tool_outcome.exc)
       /\ ReplyPieces = <<"ERROR: ", "Azure Storage MCP error: ">>
                          \o Str(last.tool_outcome.exc)
  /\ (Invoked /\ ~SchemaMismatch /\ last.name \in ToolNames) => last.tool_called
  /\ Invoked =>
       \A e \in OtherExceptions :
         DispatchError(e, last.name, EmptyDict, Context(_credential, handles))
           .reply[1].text.pieces = <<"ERROR: ", "Unexpected error: ">> \o Str(e)

\* get_network_rules is called without any argument object
C15_Witness ==
  /\ SchemaMismatch
  /\ last.name = "get_network_rules"
  /\ last.arguments = NoneObject
  /\ ~last.tool_called
  /\ SubSeq(ReplyPieces, 1, 2) = <<"ERROR: ", "Validation error: ">>

\* an undeclared tool name is refused
C15_UnknownToolWitness ==
  /\ Invoked
  /\ last.name \notin ToolNames
  /\ ReplyPieces[3] = "Unknown tool: "

\* ------------------------------------------------------------------------
\* C16: the count and the summary of get_private_endpoints
\* ------------------------------------------------------------------------

\* the last invocation returned the response of get_private_endpoints
EndpointsReturned == ToolReturned /\ last.name = "get_private_endpoints"

\* the connections the provider returned: none when it answered 404
ConnectionsReturned ==
  IF provider_calls[1].result.raised THEN <<>>
  ELSE provider_calls[1].result.value

\* C16: get_private_endpoints returns total_count equal to the number of
\* connections in private_endpoints, one for each connection the provider
\* returned; when the provider returns no connection, total_count is 0, the
\* list is empty and the summary is "No private endpoints configured for
\* storage account '<name>'".
C16_EndpointCount ==
  EndpointsReturned =>
    /\ last.tool_outcome.value.total_count
         = Len(last.tool_outcome.value.private_endpoints)
    /\ last.tool_outcome.value.total_count = Len(ConnectionsReturned)
    /\ ConnectionsReturned = <<>> =>
         /\ last.tool_outcome.value.total_count = 0
         /\ last.tool_outcome.value.private_endpoints = <<>>
         /\ last.tool_outcome.value.summary
              = <<"No private endpoints configured for storage account '">>
                  \o last.request.account_name \o <<"'">>
    /\ ConnectionsReturned # <<>> =>
         last.tool_outcome.value.summary[1] = "Found "

\* the provider returns an empty list of connections
C16_Witness ==
  /\ EndpointsReturned
  /\ ~provider_calls[1].result.raised
  /\ provider_calls[1].result.value = <<>>
  /\ last.tool_outcome.value.total_count = 0
  /\ last.tool_outcome.value.summary[1]
       = "No private endpoints configured for storage account '"

\* three connections in two states are counted and summarized by state
C16_SeveralWitness ==
  /\ EndpointsReturned
  /\ last.tool_outcome.value.total_count = 3
  /\ last.tool_outcome.value.summary
       = <<"Found ", "3", " private endpoint", "s", " for '">>
           \o last.request.account_name
           \o <<"'. Connection states: ">>
           \o Chars_Approved \o <<": ", "2", ", ">>
           \o Chars_Pending \o <<": ", "1">>

\* ------------------------------------------------------------------------
\* C17: the summary of list_storage_accounts
\* ------------------------------------------------------------------------

Summarized == last.handler = "_create_list_summary"

\* the regions of the accounts summarized
RegionsOf(accounts) == {accounts[i].location : i \in DOMAIN accounts}

AccountsIn(accounts, region) ==
  Cardinality({i \in DOMAIN accounts : accounts[i].location = region})

\* "<region>: <count>" for the regions of order, separated by ", "
RECURSIVE RegionClause(_, _)
RegionClause(order, accounts) ==
  IF order = <<>> THEN <<>>
  ELSE Head(order) \o <<": ">> \o FormatInt(AccountsIn(accounts, Head(order)))
         \o (IF Len(order) > 1 THEN <<", ">> ELSE <<>>)
         \o RegionClause(Tail(order), accounts)

RECURSIVE SumOfCounts(_, _)
SumOfCounts(order, accounts) ==
  IF order = <<>> THEN 0
  ELSE AccountsIn(accounts, Head(order)) + SumOfCounts(Tail(order), accounts)

\* order lists each region of the accounts once, in ascending order
AscendingRegions(order, accounts) ==
  /\ {order[i] : i \in DOMAIN order} = RegionsOf(accounts)
  /\ \A i, j \in DOMAIN order : i < j => StrLess(order[i], order[j])

\* the text before the region clause
FoundText(n, scope) ==
  <<"Found ">> \o FormatInt(n)
    \o (IF n = 1 THEN <<" storage account">> ELSE <<" storage account", "s">>)
    \o <<" in ">> \o scope \o <<". Distribution by region: ">>

\* the scope the request names
ScopeText(resource_group) ==
  IF resource_group = None \/ resource_group = <<>>
    THEN <<"subscription">>
    ELSE <<"resource group '">> \o resource_group \o <<"'">>

\* C17: for every list of accounts and every request the summary of
\* list_storage_accounts is, with no account, exactly "No storage accounts
\* found in subscription" (no resource group) or "No storage accounts found
\* in resource group '<rg>'"; with n >= 1 accounts it states n, with
\* "account" in the plural iff n # 1, followed by a region clause that lists
\* each distinct region once, in lexicographic order, with counts that sum
\* to n.
C17_ListSummary ==
  Summarized =>
    IF last.accounts = <<>>
      THEN last.summary
             = <<"No storage accounts found in ">>
                 \o ScopeText(last.request.resource_group)
      ELSE \E order \in UNION {[1..k -> Regions] : k \in 1..Cardinality(Regions)} :
             /\ AscendingRegions(order, last.accounts)
             /\ SumOfCounts(order, last.accounts) = Len(last.accounts)
             /\ last.summary
                  = FoundText(Len(last.accounts),
                              ScopeText(last.request.resource_group))
                      \o RegionClause(order, last.accounts)

\* accounts in westus, eastus and eastus are summarized as
\* "eastus: 2, westus: 1"
C17_Witness ==
  /\ Summarized
  /\ Len(last.accounts) = 3
  /\ last.accounts[1].location = Chars_westus
  /\ last.request.resource_group = None
  /\ last.summary
       = <<"Found ", "3", " storage account", "s", " in ", "subscription",
           ". Distribution by region: ">>
           \o Chars_eastus \o <<": ", "2", ", ">> \o Chars_westus \o <<": ", "1">>

\* one account in a named resource group
C17_SingularWitness ==
  /\ Summarized
  /\ last.request.resource_group = ValidResourceGroup
  /\ last.summary
       = <<"Found ", "1", " storage account", " in ", "resource group '">>
           \o ValidResourceGroup
           \o <<"'", ". Distribution by region: ">>
           \o Chars_eastus2 \o <<": ", "1">>

\* ------------------------------------------------------------------------
\* C18: validate_resource_group
\* ------------------------------------------------------------------------

ValidatedResourceGroup == last.handler = "validate_resource_group"

HasCharOutside(s, class) == \E i \in 1..Len(s) : s[i] \notin class

RaisedValidation(outcome, field) ==
  /\ outcome.raised
  /\ outcome.exc.cls = "ValidationError"
  /\ outcome.exc.field_name = field

\* C18 (as stated): validate_resource_group fails with a Validation error
\* naming the field resource_group when the name is longer than 90
\* characters or has a character outside letters, digits, period, underscore
\* and hyphen at any position, the last included; every name of 1 to 90
\* characters of that set is returned unchanged, and validating the returned
\* value again returns it again.
C18_ResourceGroupNames ==
  ValidatedResourceGroup =>
    IF Len(last.name) > MaxResourceGroupLen
       \/ HasCharOutside(last.name, ResourceGroupChars)
      THEN RaisedValidation(last.outcome, "resource_group")
    ELSE IF Len(last.name) >= 1
      THEN /\ last.outcome = Return(last.name)
           /\ validate_resource_group(last.outcome.value) = last.outcome
    ELSE TRUE

\* the case that breaks it: a name of accepted characters followed by a line
\* feed is returned as it came
C18_LineFeedAccepted ==
  /\ ValidatedResourceGroup
  /\ Len(last.name) >= 2
  /\ last.name[Len(last.name)] = "\n"
  /\ last.outcome = Return(last.name)

\* the line feed apart, the statement holds: a name that is not one
\* of accepted characters followed by a line feed is judged as C18 says
C18_ApartFromLineFeed ==
  (/\ ValidatedResourceGroup
   /\ ~(Len(last.name) >= 2 /\ last.name[Len(last.name)] = "\n"))
    => C18_ResourceGroupNames

\* ------------------------------------------------------------------------
\* C19: validate_storage_account_name
\* ------------------------------------------------------------------------

ValidatedAccountName == last.handler = "validate_storage_account_name"

\* C19 (as stated): validate_storage_account_name fails with a Validation
\* error naming the field account_name when the length is outside 3..24 or
\* the name has a character other than lower case letters and digits; every
\* name of 3 to 24 lower case letters and digits is returned unchanged.
C19_AccountNames ==
  ValidatedAccountName =>
    IF Len(last.name) < MinAccountNameLen
       \/ Len(last.name) > MaxAccountNameLen
       \/ HasCharOutside(last.name, AccountNameChars)
      THEN RaisedValidation(last.outcome, "account_name")
      ELSE last.outcome = Return(last.name)

\* the case that breaks it: lower case letters and digits followed by a line
\* feed, 3 to 24 characters in all, are returned as they came
C19_LineFeedAccepted ==
  /\ ValidatedAccountName
  /\ Len(last.name) >= 2
  /\ last.name[Len(last.name)] = "\n"
  /\ last.outcome = Return(last.name)

\* the boundaries 2, 3, 24 and 25 on names of accepted characters: fail,
\* pass, pass, fail
C19_Boundaries ==
  (ValidatedAccountName /\ AllIn(last.name, AccountNameChars)) =>
    /\ Len(last.name) \in {MinAccountNameLen - 1, MaxAccountNameLen + 1}
         => RaisedValidation(last.outcome, "account_name")
    /\ Len(last.name) \in {MinAccountNameLen, MaxAccountNameLen}
         => last.outcome = Return(last.name)

\* the line feed apart, the statement holds
C19_ApartFromLineFeed ==
  (/\ ValidatedAccountName
   /\ ~(Len(last.name) >= 2 /\ last.name[Len(last.name)] = "\n"))
    => C19_AccountNames

\* ------------------------------------------------------------------------
\* C20: read-only access
\* ------------------------------------------------------------------------

\* the provider operations that read: the list and get operations of the
\* management clients and the token request of the credential
ReadOperations ==
  {"storage_accounts.list", "storage_accounts.list_by_resource_group",
   "storage_accounts.get_properties", "blob_services.get_service_properties",
   "private_endpoint_connections.list", "metric_definitions.list",
   "metrics.list", "get_token"}

\* C20: over any sequence of tool invocations and authentication probes,
\* every provider operation invoked is one of the read operations, whatever
\* the provider answers, so no invocation changes provider-side state.
C20_ReadOnly ==
  \A i \in DOMAIN provider_calls : provider_calls[i].op \in ReadOperations

\* an invocation that went through all its provider calls: the metrics tool
\* with the catalog call and its data calls
C20_Witness ==
  /\ MetricsCalled
  /\ ToolReturned
  /\ Len(provider_calls) >= 3
  /\ log # <<>>
  /\ provider_calls[1].op = "metric_definitions.list"
  /\ provider_calls[2].op = "metrics.list"

\* the account lookup of the details and network tools, and the token request
C20_LookupWitness ==
  /\ ToolRan
  /\ provider_calls # <<>>
  /\ provider_calls[1].op = "storage_accounts.get_properties"

C20_TokenWitness == TokenRequested

\* ------------------------------------------------------------------------
\* C21: the provider client and the subscription of the request
\* ------------------------------------------------------------------------

\* C21 (as stated): over any sequence of invocations on one tool instance,
\* requests for different valid subscriptions included, every provider call
\* of an invocation goes through a client bound to the subscription id of
\* that invocation's request.
C21_ClientOfRequest ==
  ToolRan =>
    \A i \in DOMAIN provider_calls :
      provider_calls[i].client.subscription_id = last.request.subscription_id

\* the case that breaks it: the memoized client of an earlier invocation
\* serves a request for the other subscription
C21_StaleClient ==
  /\ ToolRan
  /\ provider_calls # <<>>
  /\ last.request.subscription_id = OtherSubscription
  /\ provider_calls[1].client.subscription_id = ValidSubscription

\* what the code does keep: all provider calls of one invocation go through
\* one client, the one the tool instance holds afterwards
C21_OneClientPerInvocation ==
  ToolRan =>
    \A i \in DOMAIN provider_calls :
      provider_calls[i].client
        \in {_storage_client, _network_client, _monitor_client}

\* ------------------------------------------------------------------------
\* C22: the memoized credential and client under concurrent invocations
\* ------------------------------------------------------------------------

\* a memo field that holds a value keeps it
Kept(field, field_next, empty) == field # empty => field_next = field

\* a client a task holds is a whole one: the memoized client, built on the
\* memoized credential
HoldsWholeClient(t) ==
  /\ event_loop.tasks[t].client = _storage_client
  /\ _storage_client # NoClient
  /\ _storage_client.cls = "StorageManagementClient"
  /\ _storage_client.credential = _credential
  /\ _credential # NoCredential

ObservedClient(t) ==
  \/ event_loop.tasks[t].pc = "have_client"
  \/ /\ event_loop.tasks[t].pc = "done"
     /\ ~event_loop.tasks[t].outcome.raised

C22_SharedWitness ==
  /\ Len(event_loop.tasks) = 2
  /\ \A t \in TaskIds : event_loop.tasks[t].pc = "done" /\ ObservedClient(t)
  /\ event_loop.tasks[1].subscription_id # event_loop.tasks[2].subscription_id

\* ------------------------------------------------------------------------
\* C23: no retries
\* ------------------------------------------------------------------------

\* provider call i of the last invocation is the data call for entry k of
\* the requested metrics
DataCallFor(i, k) ==
  /\ provider_calls[i].op = "metrics.list"
  /\ k \in 1..Len(last.request.metrics)
  /\ provider_calls[i].args[2] = last.request.metrics[k]

\* the response holds the default value for the failed call i
DefaultInResponse(i) ==
  IF provider_calls[i].op = "blob_services.get_service_properties"
    THEN DefaultBlobProjection(last.tool_outcome.value.blob_service_properties)
  ELSE IF provider_calls[i].op = "private_endpoint_connections.list"
    THEN /\ last.tool_outcome.value.private_endpoints = <<>>
         /\ last.tool_outcome.value.total_count = 0
  ELSE EmptySubstitute(i)

\* no provider operation is issued twice in the last invocation, but the
\* data call of the metrics tool, once per entry of the requested metrics
IssuedOnce ==
  \A i, j \in DOMAIN provider_calls :
    (i < j /\ provider_calls[i].op = provider_calls[j].op)
      => (i >= 2 /\ DataCallFor(i, i - 1) /\ DataCallFor(j, j - 1))

NoEndpointsAnswer(i) ==
  /\ provider_calls[i].op = "private_endpoint_connections.list"
  /\ AnsweredStatus(i, NotFoundStatus)

C23_FailedWitness ==
  /\ ToolRaised
  /\ Len(provider_calls) = 1
  /\ provider_calls[1].op \in MandatoryCalls
  /\ provider_calls[1].result.raised

\* ------------------------------------------------------------------------
\* C24: the error record of a failing operation
\* ------------------------------------------------------------------------

\* log record j is the operation's record of the error it raises, with the
\* correlation id of the invocation
OperationErrorRecord(j) ==
  /\ log[j].event_type = "error"
  /\ log[j].error_type = last.tool_outcome.exc.cls
  /\ log[j].error_message = Str(last.tool_outcome.exc)
  /\ "correlation_id" \in DOMAIN log[j].context
  /\ log[j].context.correlation_id = last.correlation_id

\* log record k is the dispatcher's record of the error that reached it
DispatcherErrorRecord(k) ==
  /\ log[k].event_type = "error"
  /\ "tool" \in DOMAIN log[k].context

\* C24: when a domain tool operation fails, whatever the kind of the error,
\* the operation writes an error record that carries the correlation id
\* generated at the start of that invocation, and writes it before the error
\* reaches the dispatcher.
C24_ErrorLogged ==
  ToolRaised =>
    \E j \in DOMAIN log :
      /\ OperationErrorRecord(j)
      /\ \A k \in DOMAIN log : DispatcherErrorRecord(k) => j < k
      /\ \E k \in DOMAIN log : DispatcherErrorRecord(k)

\* the kinds of failure, under either correlation id: a refused provider
\* call, a malformed subscription id, a failed credential construction
C24_Witness ==
  /\ ToolRaised
  /\ last.correlation_id = "uuid-2"
  /\ last.tool_outcome.exc.error_code = "PERMISSION_ERROR"
  /\ \E j \in DOMAIN log : OperationErrorRecord(j)

C24_ValidationWitness ==
  /\ ToolRaised
  /\ last.correlation_id = "uuid-2"
  /\ last.tool_outcome.exc.error_code = "VALIDATION_ERROR"

C24_UnknownWitness ==
  /\ ToolRaised
  /\ last.correlation_id = "uuid-1"
  /\ last.tool_outcome.exc.error_code = "UNKNOWN_ERROR"
  /\ provider_calls = <<>>

\* ------------------------------------------------------------------------
\* C25: a Validation error raised inside a domain tool
\* ------------------------------------------------------------------------

\* the domain tool raised the Validator's ValidationError
ValidatorRejected ==
  /\ ToolRaised
  /\ last.tool_outcome.exc.cls = "ValidationError"

\* C25: a Validation error that the Validator raises inside a domain tool,
\* for arguments that passed the request schema, reaches the client as a
\* text starting "ERROR: Azure Storage MCP error: " followed by the error's
\* message, not "ERROR: Validation error: ": the dispatcher's first clause
\* catches the request model's error only.
C25_ValidatorErrorText ==
  ValidatorRejected =>
    /\ ~SchemaMismatch
    /\ ~IsPydanticValidationError(last.tool_outcome.exc)
    /\ last.tool_outcome.exc.error_code = "VALIDATION_ERROR"
    /\ ReplyPieces = <<"ERROR: ", "Azure Storage MCP error: ">>
                       \o Str(last.tool_outcome.exc)
    /\ ReplyPieces[2] # "Validation error: "

\* a malformed subscription id passes the request schema of
\* list_storage_accounts and is rejected by the Validator
C25_Witness ==
  /\ ValidatorRejected
  /\ last.name = "list_storage_accounts"
  /\ last.request.subscription_id = InvalidSubscription
  /\ last.tool_outcome.exc.field_name = "subscription_id"
  /\ ReplyPieces[2] = "Azure Storage MCP error: "

\* ------------------------------------------------------------------------
\* C26: credential construction fails inside a domain tool
\* ------------------------------------------------------------------------

\* the last invocation ran a domain tool whose request for the credential
\* ended in a failed construction
ConstructionFailed ==
  /\ ToolRan
  /\ last.cred_raises # <<>>

\* the last invocation ran a domain tool up to the request for its client
ReachedClient ==
  /\ ToolRan
  /\ ~(ToolRaised /\ last.tool_outcome.exc.error_code = "VALIDATION_ERROR")

\* C26: when credential construction fails while a domain tool obtains its
\* provider client, the operation raises the generic error (UNKNOWN_ERROR,
\* not AUTH_ERROR) whose message wraps the construction error's message, no
\* provider call is issued, the cached credential and the cached clients
\* stay unset, and the next invocation that needs the client attempts the
\* construction again.
C26_ConstructionFailure ==
  /\ [](ConstructionFailed =>
          /\ ToolRaised
          /\ last.tool_outcome.exc.cls = "AzureStorageMCPError"
          /\ last.tool_outcome.exc.error_code = "UNKNOWN_ERROR"
          /\ last.cred_raises[1].error_code = "AUTH_ERROR"
          /\ Str(last.tool_outcome.exc)
               = <<"Unexpected error: ">> \o Str(last.cred_raises[1])
          /\ provider_calls = <<>>
          /\ _credential = NoCredential
          /\ Clients[ClientField(last.name)] = NoClient)
  /\ [][(ConstructionFailed /\ ReachedClient') => last'.create_attempts = 1]_vars

\* the construction fails under the default strategy, where a later attempt
\* can succeed
C26_Witness ==
  /\ ConstructionFailed
  /\ auth_method = "default"
  /\ last.name = "list_storage_accounts"
  /\ last.tool_outcome.exc.error_code = "UNKNOWN_ERROR"
  /\ _storage_client = NoClient

\* an invocation that constructs the credential and obtains its client
C26_RecoveredWitness ==
  /\ ToolReturned
  /\ last.create_attempts = 1
  /\ handles = 1
  /\ \E i \in DOMAIN log:
       log[i].event_type = "authentication" /\ log[i].success

\* ------------------------------------------------------------------------
\* C27: the errors that leave a domain tool
\* ------------------------------------------------------------------------

\* the error code each class of domain error carries
CodeOfClass ==
  [AzureStorageMCPError |-> "UNKNOWN_ERROR", AuthenticationError |-> "AUTH_ERROR",
   PermissionError |-> "PERMISSION_ERROR", ValidationError |-> "VALIDATION_ERROR",
   AzureAPIError |-> "AZURE_API_ERROR"]

\* an exception of the provider SDK, of the identity SDK or of the request
\* model, or any other exception that carries no error code
IsRawException(e) ==
  \/ IsHttpResponseError(e)
  \/ IsPydanticValidationError(e)
  \/ e \in OtherExceptions
  \/ "error_code" \notin DOMAIN e

\* C27: every exception that leaves one of the five domain tool operations
\* is a domain error, and its error_code is the one of its class, one of
\* AUTH_ERROR, PERMISSION_ERROR, VALIDATION_ERROR, AZURE_API_ERROR and
\* UNKNOWN_ERROR; no provider exception, request model exception or other
\* untyped exception reaches the dispatcher from a domain tool.
C27_ClosedErrorSet ==
  ToolRaised =>
    /\ last.name \in ToolNames
    /\ IsDomainError(last.tool_outcome.exc)
    /\ ~IsRawException(last.tool_outcome.exc)
    /\ last.tool_outcome.exc.error_code = CodeOfClass[last.tool_outcome.exc.cls]

\* a failure outside the HTTP layer leaves the operation as UNKNOWN_ERROR
C27_Witness ==
  /\ ToolRaised
  /\ provider_calls # <<>>
  /\ provider_calls[Len(provider_calls)].result = Raise(ConnectionFailure)
  /\ last.tool_outcome.exc.error_code = "UNKNOWN_ERROR"

\* each of the other codes leaves some operation
C27_AuthWitness ==
  ToolRaised /\ last.tool_outcome.exc.error_code = "AUTH_ERROR"

C27_PermissionWitness ==
  ToolRaised /\ last.tool_outcome.exc.error_code = "PERMISSION_ERROR"

C27_ValidationWitness ==
  ToolRaised /\ last.tool_outcome.exc.error_code = "VALIDATION_ERROR"

C27_ApiWitness ==
  ToolRaised /\ last.tool_outcome.exc.error_code = "AZURE_API_ERROR"

\* ------------------------------------------------------------------------
\* C28: the maps of a metrics response
\* ------------------------------------------------------------------------

MetricsReturned == ToolReturned /\ last.name = "get_storage_metrics"

\* the metric names of the request, repetitions collapsed
RequestedNames ==
  {last.request.metrics[i] : i \in DOMAIN last.request.metrics}

\* the fraction q is the arithmetic mean of the values of points, and 0 when
\* there is none
IsMeanOf(q, points) ==
  IF points = <<>> THEN q.num = 0 /\ q.den # 0
  ELSE /\ q.den # 0
       /\ q.num * Len(points) = SumValues(points) * q.den

\* the data points the response lists for a name are those of the answer to
\* the last data call for that name that carry a time stamp and a value
ListedFrom(points, answer) ==
  IF answer.raised THEN points = <<>>
  ELSE points = DataPoints(answer.value, last.request.aggregation_type)

LastCallFor(name) ==
  CHOOSE i \in DOMAIN provider_calls :
    /\ DataCallFor(i, i - 1)
    /\ provider_calls[i].args[2] = name
    /\ \A j \in DOMAIN provider_calls :
         (j > i /\ provider_calls[j].op = "metrics.list")
           => provider_calls[j].args[2] # name

\* C28: in every successful get_storage_metrics response the keys of
\* metrics_data, the keys of aggregated_summary and the metric names of the
\* request are the same set; the aggregated value of a name is the
\* arithmetic mean of the values of the data points listed for it, and 0
\* when none is listed; a request for no metric gets two empty maps and the
\* summary "No metrics data available for '<account>' in the last <range>".
C28_MetricMaps ==
  MetricsReturned =>
    /\ DOMAIN last.tool_outcome.value.metrics_data = RequestedNames
    /\ DOMAIN last.tool_outcome.value.aggregated_summary = RequestedNames
    /\ \A name \in RequestedNames :
         /\ IsMeanOf(last.tool_outcome.value.aggregated_summary[name],
                     last.tool_outcome.value.metrics_data[name])
         /\ ListedFrom(last.tool_outcome.value.metrics_data[name],
                       provider_calls[LastCallFor(name)].result)
    /\ last.request.metrics = <<>> =>
         /\ last.tool_outcome.value.metrics_data = EmptyDict
         /\ last.tool_outcome.value.aggregated_summary = EmptyDict
         /\ last.tool_outcome.value.summary
              = <<"No metrics data available for '">> \o last.request.account_name
                  \o <<"' in the last ">> \o last.request.time_range

\* one metric requested twice, answered with different data
C28_Witness ==
  /\ MetricsReturned
  /\ Len(last.request.metrics) = 2
  /\ last.request.metrics[1] = last.request.metrics[2]
  /\ provider_calls[2].result = Return(SampleMetricData)
  /\ provider_calls[3].result = Return(OtherMetricData)
  /\ last.tool_outcome.value.aggregated_summary[last.request.metrics[1]].den = 2

\* no metric requested
C28_EmptyWitness ==
  /\ MetricsReturned
  /\ last.request.metrics = <<>>
  /\ Len(provider_calls) = 1

\* a metric whose data call failed, next to one with data
C28_FailedWitness ==
  /\ MetricsReturned
  /\ Cardinality(RequestedNames) = 2
  /\ provider_calls[2].result.raised
  /\ ~provider_calls[3].result.raised

\* ------------------------------------------------------------------------
\* Requests that carry the flags include_deleted and include_keys
\* ------------------------------------------------------------------------

\* a flag of a request: left out, false or true
FlagInputs == {Absent, PyFalse, PyTrue}

\* the argument object of a request with its flags
FlaggedArguments(s, r, a, include_deleted, include_keys) ==
  JsonObject(MakeDict({<<K_subscription_id, s>>, <<K_resource_group, r>>,
                       <<K_account_name, a>>,
                       <<K_include_deleted, include_deleted>>,
                       <<K_include_keys, include_keys>>}))

\* the resource groups the flagged requests name
FlaggedGroups == {Absent, <<>>, ValidResourceGroup}

\* the provider answers every call or fails the first one
FlagBehaviours(name) ==
  {Answering[name]} \cup {FailingWith(name, e) : e \in ProviderErrors}

\* the outcomes of the credential constructor a call can meet
ConstructorOutcomes == IF _credential = NoCredential THEN BOOLEAN ELSE {FALSE}

\* one call of list_storage_accounts with the flag include_deleted
ListWithFlag ==
  \E r \in FlaggedGroups, include_deleted \in FlagInputs,
     correlation_id \in InvocationIds,
     prov \in FlagBehaviours("list_storage_accounts"),
     sdk_raises \in ConstructorOutcomes :
    AfterCall("list_storage_accounts",
              FlaggedArguments(ValidSubscription, r, Absent, include_deleted, Absent),
              correlation_id,
              handle_call_tool("list_storage_accounts",
                               FlaggedArguments(ValidSubscription, r, Absent,
                                                include_deleted, Absent),
                               Clients, Context(_credential, handles), prov,
                               sdk_raises, correlation_id))

\* one call of get_storage_account_details with the flag include_keys
DetailsWithFlag ==
  \E r \in FlaggedGroups, include_keys \in FlagInputs,
     correlation_id \in InvocationIds,
     prov \in FlagBehaviours("get_storage_account_details"),
     sdk_raises \in ConstructorOutcomes :
    AfterCall("get_storage_account_details",
              FlaggedArguments(ValidSubscription, r, ValidAccount, Absent,
                               include_keys),
              correlation_id,
              handle_call_tool("get_storage_account_details",
                               FlaggedArguments(ValidSubscription, r, ValidAccount,
                                                Absent, include_keys),
                               Clients, Context(_credential, handles), prov,
                               sdk_raises, correlation_id))

NextFlags ==
  \/ ListWithFlag
  \/ DetailsWithFlag

SpecFlags == Init /\ [][NextFlags]_vars

\* ------------------------------------------------------------------------
\* C29: the flags include_keys and include_deleted have no effect
\* ------------------------------------------------------------------------

\* the provider operations that read or renew the access keys of an account
KeyOperations == {"storage_accounts.list_keys", "storage_accounts.regenerate_key"}

\* the fields of a response that would hold access keys
KeyFields == {"keys", "access_keys", "primary_key", "secondary_key"}

\* handle_call_tool from the current state for the list request with the
\* given flag
ListRun(r, include_deleted, prov, sdk_raises, correlation_id) ==
  handle_call_tool("list_storage_accounts",
                   FlaggedArguments(ValidSubscription, r, Absent, include_deleted,
                                    Absent),
                   Clients, Context(_credential, handles), prov, sdk_raises,
                   correlation_id)

\* handle_call_tool from the current state for the details request with the
\* given flag
DetailsRun(r, include_keys, prov, sdk_raises, correlation_id) ==
  handle_call_tool("get_storage_account_details",
                   FlaggedArguments(ValidSubscription, r, ValidAccount, Absent,
                                    include_keys),
                   Clients, Context(_credential, handles), prov, sdk_raises,
                   correlation_id)

\* two runs issue the same provider calls and give the same response
SameCallsAndReply(r1, r2) ==
  /\ r1.ctx.calls = r2.ctx.calls
  /\ r1.reply = r2.reply

\* the last invocation carried the flag of its tool with the value true
FlagSet ==
  /\ last.handler = "handle_call_tool"
  /\ last.tool_called
  /\ \/ /\ last.name = "list_storage_accounts"
        /\ last.request.include_deleted = PyTrue
     \/ /\ last.name = "get_storage_account_details"
        /\ last.request.include_keys = PyTrue

C29_DeletedWitness ==
  /\ FlagSet
  /\ last.name = "list_storage_accounts"
  /\ ~last.tool_outcome.raised
  /\ last.tool_outcome.value.total_count = 1

\* ------------------------------------------------------------------------
\* C30: an empty resource group in list_storage_accounts
\* ------------------------------------------------------------------------

\* the last invocation was list_storage_accounts and reached the tool
ListCalled ==
  /\ last.handler = "handle_call_tool"
  /\ last.name = "list_storage_accounts"
  /\ last.tool_called

\* the last invocation was list_storage_accounts with resource_group ""
ListWithEmptyGroup ==
  /\ ListCalled
  /\ last.request.resource_group = <<>>

\* the summary names the whole subscription as its scope
SubscriptionScope(summary) ==
  /\ \E i \in DOMAIN summary : summary[i] = "subscription"
  /\ \A i \in DOMAIN summary : summary[i] # "resource group '"

\* C30: a list_storage_accounts invocation whose resource_group is the empty
\* string raises no Validation error for the resource group, issues the
\* subscription-wide list call and never the per-resource-group call, and
\* a returned summary has the scope "subscription"; from every state it
\* issues the same calls and gets the same response as the invocation
\* without a resource group.  The per-resource-group call is issued only
\* with a non-empty resource group that validate_resource_group accepted.
C30_EmptyGroupAsAbsent ==
  /\ ListWithEmptyGroup =>
       /\ last.tool_outcome.raised =>
            ~(/\ last.tool_outcome.exc.cls = "ValidationError"
              /\ last.tool_outcome.exc.field_name = "resource_group")
       /\ \A i \in DOMAIN provider_calls :
            /\ provider_calls[i].op = "storage_accounts.list"
            /\ provider_calls[i].args = <<>>
       /\ ~last.tool_outcome.raised =>
            SubscriptionScope(last.tool_outcome.value.summary)
  /\ \A prov \in FlagBehaviours("list_storage_accounts"),
        correlation_id \in CorrelationIds, sdk_raises \in ConstructorOutcomes :
        SameCallsAndReply(
          ListRun(<<>>, Absent, prov, sdk_raises, correlation_id),
          ListRun(Absent, Absent, prov, sdk_raises, correlation_id))
  /\ ListCalled =>
       \A i \in DOMAIN provider_calls :
         provider_calls[i].op = "storage_accounts.list_by_resource_group" =>
           /\ last.request.resource_group \notin {None, <<>>}
           /\ ~validate_resource_group(last.request.resource_group).raised
           /\ provider_calls[i].args = <<last.request.resource_group>>

\* a list request with resource_group "" was answered after the
\* subscription-wide list call
C30_Witness ==
  /\ ListWithEmptyGroup
  /\ ~last.tool_outcome.raised
  /\ Len(provider_calls) = 1
  /\ provider_calls[1].op = "storage_accounts.list"

\* a list request with a resource group was answered after the
\* per-resource-group call
C30_GroupWitness ==
  /\ ListCalled
  /\ last.request.resource_group = ValidResourceGroup
  /\ ~last.tool_outcome.raised
  /\ provider_calls[1].op = "storage_accounts.list_by_resource_group"

====
